---- MODULE Spec2Model ----
(***************************************************************************)
(* A model of the persistence and caching layer of the reasoning-trace     *)
(* plugin: PersistenceManager (src/persistence.py), and of the plugin      *)
(* object R1Filter (src/main.py) with its upload (src/r2_upload.py).       *)
(*                                                                         *)
(*   records             latest record per conversation key  (dict)        *)
(*   last_uploaded_info  upload watermark per key            (OrderedDict) *)
(*   fs                  the storage directory: cache.json, its temp file  *)
(*                       and the segment files of every partition          *)
(*   r1                  the state of R1Filter, see below                  *)
(*                                                                         *)
(* Coroutines are modelled one step per await: everything between two      *)
(* awaits runs atomically on the event loop.                               *)
(* A cancelled task takes no further step.                                 *)
(***************************************************************************)
EXTENDS Integers, Sequences, FiniteSets, TLC

(***************************************************************************)
(* Bounds of the model.                                                    *)
(***************************************************************************)
\* records held by the segment files of one partition in SpecRead
MaxTotal == 3
\* segment files of one partition in SpecRead
MaxFiles == 2
\* the largest configured upload_cache_size
MaxCacheSize == 2
\* log_thought calls in SpecLog
MaxCalls == 3
\* log_thought calls in SpecCommit
MaxIngested == 2

\* general.log_rotation_count when the configuration does not set it
DefaultRotationCount == 20

(***************************************************************************)
(* Conversation keys.  A key is a string; it is modelled as the sequence   *)
(* of its pieces so that split('/', 1) and replace('/', '_') are computed. *)
(* "dm" and "group" are the two scene words the code tests for.            *)
(***************************************************************************)
KeyDM == <<"a", "/", "dm">>
KeyGroup == <<"a", "/", "group">>
KeyOther == <<"a", "/", "b">>
KeyBare == <<"a">>
KeyDeep == <<"a", "/", "b", "/", "c">>
\* the key 'a_b/c'
KeyUnder == <<"a", "_", "b", "/", "c">>
\* the key '..', which has no "/" and is the name of the parent directory
KeyDotDot == <<"..">>
Keys == {KeyDM, KeyGroup, KeyOther, KeyBare, KeyDeep, KeyUnder, KeyDotDot}

\* index of the first "/" of the key, 0 when there is none
FirstSlash(key) ==
    IF \E i \in 1..Len(key) : key[i] = "/"
    THEN CHOOSE i \in 1..Len(key) :
            key[i] = "/" /\ \A j \in 1..(i - 1) : key[j] # "/"
    ELSE 0

\* user_key.replace('/', '_')
Sanitize(key) == [i \in 1..Len(key) |-> IF key[i] = "/" THEN "_" ELSE key[i]]

\* session_dir as lines 108-122 (and 187-201) build it, relative to storage_dir
SessionPath(key) ==
    LET s == FirstSlash(key) IN
    IF s = 0 THEN <<"malformed", Sanitize(key)>>
    ELSE LET session_id == SubSeq(key, 1, s - 1)
             scene == SubSeq(key, s + 1, Len(key))
         IN  IF scene = <<"group">> THEN <<"GP", session_id>>
             ELSE IF scene = <<"dm">> THEN <<"DM", session_id>>
             ELSE <<"other", Sanitize(key)>>

\* storage_dir itself
StorageDir == <<"storage", <<>>>>

\* the directory the file system reaches by a path: a last component '..' under
\* a directory of storage_dir is storage_dir
Resolve(path) == IF path[2] = <<"..">> THEN StorageDir ELSE path

\* the partition directory of a key
SessionDir(key) == Resolve(SessionPath(key))

(***************************************************************************)
(* Records.  A timestamp is an ISO string; the model keeps its rank, which *)
(* orders the strings and the parsed datetimes alike.  NoTs is the missing *)
(* (or empty) timestamp: '' sorts before every timestamp string.           *)
(***************************************************************************)
NoTs == 0
\* a 'timestamp' string datetime.fromisoformat rejects (line 228); as a string
\* it sorts after the well-formed ones
BadTs == MaxTotal + MaxCalls

MkRecord(key, ts, text) == [user_key |-> key, timestamp |-> ts, reasoning |-> text]

(***************************************************************************)
(* File contents.  kind "ok": val is the parsed JSON; "empty": a file of   *)
(* zero bytes; "corrupt": bytes json.loads rejects.                        *)
(***************************************************************************)
Ok(val) == [kind |-> "ok", val |-> val]
EmptyFile == [kind |-> "empty", val |-> <<>>]
CorruptFile == [kind |-> "corrupt", val |-> <<>>]
\* JSON that parses to something list.extend rejects (a number, null)
NotAList == [kind |-> "notlist", val |-> <<>>]
\* whether the file parses to a JSON object, as cache.json does: its content
\* is the one snapshot, with the keys 'records' and 'last_uploaded_info'
IsDict(content) ==
    /\ content.kind = "ok"
    /\ Len(content.val) = 1
    /\ DOMAIN content.val[1] = {"records", "last_uploaded_info"}

(***************************************************************************)
(* Python's list.sort / sorted: stable, by the 'timestamp' key.            *)
(***************************************************************************)
RECURSIVE InsertAsc(_, _)
InsertAsc(sorted, r) ==
    IF sorted = <<>> THEN <<r>>
    ELSE IF Head(sorted).timestamp <= r.timestamp
         THEN <<Head(sorted)>> \o InsertAsc(Tail(sorted), r)
         ELSE <<r>> \o sorted

RECURSIVE SortAsc(_)
SortAsc(s) ==
    IF s = <<>> THEN <<>>
    ELSE InsertAsc(SortAsc(SubSeq(s, 1, Len(s) - 1)), s[Len(s)])

RECURSIVE InsertDesc(_, _)
InsertDesc(sorted, r) ==
    IF sorted = <<>> THEN <<r>>
    ELSE IF Head(sorted).timestamp >= r.timestamp
         THEN <<Head(sorted)>> \o InsertDesc(Tail(sorted), r)
         ELSE <<r>> \o sorted

\* sort(reverse=True) keeps the original order of equal keys
RECURSIVE SortDesc(_)
SortDesc(s) ==
    IF s = <<>> THEN <<>>
    ELSE InsertDesc(SortDesc(SubSeq(s, 1, Len(s) - 1)), s[Len(s)])

(***************************************************************************)
(* State.                                                                  *)
(***************************************************************************)
VARIABLES
    enable_persistence,  \* config general.enable_persistence
    upload_cache_size,   \* config general.upload_cache_size
    log_rotation_count,  \* config general.log_rotation_count
    records,             \* self.records: key -> latest record (or NoRecord)
    last_uploaded_info,  \* self.last_uploaded_info: entries in OrderedDict order
    save_tasks,          \* self.user_save_tasks[key], self.periodic_save_task and
                         \* the coroutine terminate() returns
    log_tasks,           \* the log_thought calls
    fs,                  \* the files under storage_dir
    grs,                 \* the running get_records_since call
    alive,               \* FALSE once terminate() was called
    hist,                \* history kept for the properties; the code has none of it
    timers,              \* the sleeps of the debounce tasks, and the time since
                         \* the last write of each key
    r1                   \* the R1Filter object of src/main.py and its files

config == <<enable_persistence, upload_cache_size, log_rotation_count>>
memory == <<records, last_uploaded_info>>

\* the state of PersistenceManager
pm == <<config, memory, save_tasks, log_tasks, fs, grs, alive, hist, timers>>

vars == <<pm, r1>>

NoRecord == [user_key |-> <<>>, timestamp |-> NoTs, reasoning |-> "none"]

(***************************************************************************)
(* The file system.  fs.names maps each existing path to its inode,        *)
(* fs.data each inode to its content, fs.mtime lists the inodes from the   *)
(* least to the most recently modified, fs.dirs are the partition          *)
(* directories that exist.                                                 *)
(***************************************************************************)
Path(dir, name, ext) == [dir |-> dir, name |-> name, ext |-> ext]

EmptyFs == [names |-> <<>>, data |-> <<>>, mtime |-> <<>>, dirs |-> {}]

\* Path.exists() of a directory; storage_dir exists (__init__, line 39)
DirExists(f, dir) == dir = StorageDir \/ dir \in f.dirs

\* session_dir.glob('*.json')
Glob(f, dir) == {p \in DOMAIN f.names : p.dir = dir /\ p.ext = "json"}

\* os.path.getmtime, as the rank of the file's inode in fs.mtime
Mtime(f, p) == CHOOSE i \in 1..Len(f.mtime) : f.mtime[i] = f.names[p]

\* sorted(paths, key=os.path.getmtime, reverse=True)
RECURSIVE SortedByMtimeDesc(_, _)
SortedByMtimeDesc(f, paths) ==
    IF paths = {} THEN <<>>
    ELSE LET newest == CHOOSE p \in paths : \A q \in paths : Mtime(f, q) <= Mtime(f, p)
         IN  <<newest>> \o SortedByMtimeDesc(f, paths \ {newest})

\* cache.json and cache.json.tmp in storage_dir
CachePath == Path(StorageDir, 0, "json")
CacheTmp == Path(StorageDir, 0, "tmp")

\* a list with x moved (or added) to its end
MoveToEnd(list, x) == SelectSeq(list, LAMBDA y : y # x) \o <<x>>

\* the modification of inode i: it becomes the newest of the inodes whose
\* modification time is kept (those of the session directories; nothing
\* reads the modification time of a file of storage_dir)
Touch(f, i) ==
    IF \E n \in 1..Len(f.mtime) : f.mtime[n] = i THEN MoveToEnd(f.mtime, i) ELSE f.mtime

\* the inode number a new file gets: the least one not in use
NewInode(f) ==
    CHOOSE i \in 1..(Cardinality(DOMAIN f.data) + 1) :
        i \notin DOMAIN f.data /\ \A j \in 1..(i - 1) : j \in DOMAIN f.data

\* the file system frees an inode that has no name and that no descriptor in
\* `held` keeps open
Reclaim(f, held) ==
    LET live == {f.names[p] : p \in DOMAIN f.names} \cup held IN
    [f EXCEPT !.data = [i \in (DOMAIN f.data) \cap live |-> f.data[i]],
              !.mtime = SelectSeq(f.mtime, LAMBDA i : i \in live)]

\* open(p, 'w'): truncate the file at p, or create it
FsOpenW(f, p) ==
    IF p \in DOMAIN f.names
    THEN [f EXCEPT !.data[f.names[p]] = EmptyFile,
                   !.mtime = Touch(f, f.names[p])]
    ELSE LET i == NewInode(f) IN
         [f EXCEPT !.names = (p :> i) @@ f.names,
                   !.data = (i :> EmptyFile) @@ f.data,
                   !.mtime = IF p \in {CachePath, CacheTmp} THEN @ ELSE Append(@, i)]

\* write(content) through a descriptor opened with 'w', at offset 0.  Over a
\* file another descriptor has written since it was truncated, the bytes past
\* the end of content stay, and the file is unparseable when the earlier
\* content was the longer one.
FsWriteOutcomes(f, ino, content) ==
    LET written(c) == [f EXCEPT !.data[ino] = c, !.mtime = Touch(f, ino)] IN
    IF f.data[ino] \in {EmptyFile, content}
    THEN {written(content)}
    ELSE {written(content), written(CorruptFile)}

\* os.replace(src, dst), src exists
FsReplace(f, src, dst) ==
    [f EXCEPT !.names = [p \in ((DOMAIN f.names) \cup {dst}) \ {src} |->
                            IF p = dst THEN f.names[src] ELSE f.names[p]]]

\* os.remove(p)
FsRemove(f, p) == [f EXCEPT !.names = [q \in (DOMAIN f.names) \ {p} |-> f.names[q]]]

(***************************************************************************)
(* get_last_upload_info: OrderedDict.get.  Returns the entry (or NoInfo)   *)
(* and the cache as the call leaves it.                                    *)
(***************************************************************************)
MkInfo(key, url, ts) == [key |-> key, url |-> url, breakpoint_timestamp |-> ts]

NoInfo == MkInfo(<<>>, "none", NoTs)

HasInfo(cache, key) == \E i \in 1..Len(cache) : cache[i].key = key

InfoOf(cache, key) ==
    IF HasInfo(cache, key)
    THEN cache[CHOOSE i \in 1..Len(cache) : cache[i].key = key]
    ELSE NoInfo

\* get_last_upload_info that marks the entry as most recently used
\* (OrderedDict.move_to_end) on a hit
GetLastUploadInfoMoveToEnd(cache, key) ==
    [ret |-> InfoOf(cache, key),
     cache |-> IF HasInfo(cache, key)
               THEN SelectSeq(cache, LAMBDA e : e.key # key) \o <<InfoOf(cache, key)>>
               ELSE cache]

GetLastUploadInfo(cache, key) == [ret |-> InfoOf(cache, key), cache |-> cache]

(***************************************************************************)
(* update_last_upload_info, lines 173-179.                                 *)
(***************************************************************************)
\* OrderedDict.__setitem__: an existing key keeps its position
SetInfo(cache, key, url, ts) ==
    IF HasInfo(cache, key)
    THEN [i \in 1..Len(cache) |-> IF cache[i].key = key THEN MkInfo(key, url, ts)
                                                      ELSE cache[i]]
    ELSE Append(cache, MkInfo(key, url, ts))

\* while len(cache) > size: cache.popitem(last=False)
RECURSIVE TrimCache(_, _)
TrimCache(cache, size) ==
    IF Len(cache) > size THEN TrimCache(Tail(cache), size) ELSE cache

UpdateInfo(cache, key, url, ts, size) == TrimCache(SetInfo(cache, key, url, ts), size)

(***************************************************************************)
(* The save tasks: user_save_tasks[key] (_save_after_timeout), the         *)
(* periodic task and the coroutine terminate() returns.  pc is the await   *)
(* the task is suspended at: "sleep", then the awaits of                   *)
(* _save_cache_to_disk_async: "open", "write", "close", "replace"; info is *)
(* the list(last_uploaded_info.items()) taken at line 65; ino the open     *)
(* temp file.                                                              *)
(***************************************************************************)
Periodic == <<"periodic">>
Terminate == <<"terminate">>
TaskIds == Keys \cup {Periodic, Terminate}

NoTask == [pc |-> "none", info |-> <<>>, ino |-> 0]
Sleeping == [pc |-> "sleep", info |-> <<>>, ino |-> 0]

\* Task.done()
TaskDone(task) == task.pc \in {"done", "cancelled"}

\* _manage_user_save_task were it to restart the periodic task as well
ManageUserSaveTaskPostponing(tasks, enabled, key) ==
    IF ~enabled THEN tasks ELSE [tasks EXCEPT ![key] = Sleeping, ![Periodic] = Sleeping]

\* _manage_user_save_task, lines 75-87: cancel the key's pending task, create a
\* new one
ManageUserSaveTask(tasks, enabled, key) ==
    IF ~enabled THEN tasks ELSE [tasks EXCEPT ![key] = Sleeping]

(***************************************************************************)
(* get_records_since, lines 220-242: the filter over all_records.          *)
(***************************************************************************)
\* the loop of lines 224-239 with a record at the cutoff taken as new
RECURSIVE NewRecordsInclusive(_, _)
NewRecordsInclusive(sorted_desc, last_timestamp) ==
    IF sorted_desc = <<>> THEN <<>>
    ELSE LET record == Head(sorted_desc) IN
         IF record.timestamp = NoTs
         THEN NewRecordsInclusive(Tail(sorted_desc), last_timestamp)
         ELSE IF record.timestamp >= last_timestamp
              THEN <<record>> \o NewRecordsInclusive(Tail(sorted_desc), last_timestamp)
              ELSE <<>>

\* the loop of lines 224-239 over the records sorted newest first
RECURSIVE NewRecords(_, _)
NewRecords(sorted_desc, last_timestamp) ==
    IF sorted_desc = <<>> THEN <<>>
    ELSE LET record == Head(sorted_desc) IN
         IF record.timestamp = NoTs
         THEN NewRecords(Tail(sorted_desc), last_timestamp)           \* continue
         ELSE IF record.timestamp > last_timestamp
              THEN <<record>> \o NewRecords(Tail(sorted_desc), last_timestamp)
              ELSE <<>>                                                \* break

\* list[:limit], limit >= 0
Truncate(list, limit) == SubSeq(list, 1, IF limit < Len(list) THEN limit ELSE Len(list))

\* SelectSince keeping the newest `limit` records (list[-limit:]) instead of the
\* oldest
SelectSinceNewest(all_records, last_timestamp, limit) ==
    LET new_records == SortAsc(NewRecords(SortDesc(all_records), last_timestamp))
        n == Len(new_records)
    IN  SubSeq(new_records, (IF limit < n THEN n - limit ELSE 0) + 1, n)

\* lines 220-242
SelectSince(all_records, last_timestamp, limit) ==
    Truncate(SortAsc(NewRecords(SortDesc(all_records), last_timestamp)), limit)

GrsIdle == [pc |-> "idle", key |-> <<>>, last_timestamp |-> NoTs, limit |-> 0,
            log_files |-> <<>>, ino |-> 0, all_records |-> <<>>, result |-> <<>>]

\* whether the loop of lines 224-239 reaches a record whose timestamp
\* datetime.fromisoformat rejects: the ValueError of line 228 is not caught
RECURSIVE LoopRaises(_, _)
LoopRaises(sorted_desc, last_timestamp) ==
    IF sorted_desc = <<>> THEN FALSE
    ELSE LET record == Head(sorted_desc) IN
         IF record.timestamp = NoTs THEN LoopRaises(Tail(sorted_desc), last_timestamp)
         ELSE IF record.timestamp = BadTs THEN TRUE
         ELSE IF record.timestamp > last_timestamp
              THEN LoopRaises(Tail(sorted_desc), last_timestamp)
              ELSE FALSE

\* what the call does once log_files is exhausted: lines 220-242; pc "raised":
\* the call has ended with an exception
GrsAdvance(g) ==
    IF g.log_files = <<>>
    THEN IF LoopRaises(SortDesc(g.all_records), g.last_timestamp)
         THEN [g EXCEPT !.pc = "raised"]
         ELSE [g EXCEPT !.pc = "done",
                        !.result = SelectSince(g.all_records, g.last_timestamp, g.limit)]
    ELSE [g EXCEPT !.pc = "open"]

\* lines 184-208: up to the first await
GrsCallState(f, key, last_timestamp, limit) ==
    LET dir == SessionDir(key)
        g == [GrsIdle EXCEPT !.key = key, !.last_timestamp = last_timestamp,
                             !.limit = limit]
    IN  IF ~DirExists(f, dir)
        THEN [g EXCEPT !.pc = "done"]
        ELSE GrsAdvance([g EXCEPT !.log_files = SortedByMtimeDesc(f, Glob(f, dir))])

(***************************************************************************)
(* The records the segment files of a partition hold.                      *)
(***************************************************************************)
RECURSIVE RecordsInFiles(_, _)
RecordsInFiles(f, paths) ==
    IF paths = {} THEN <<>>
    ELSE LET p == CHOOSE q \in paths : TRUE
             content == f.data[f.names[p]]
         IN  (IF content.kind = "ok" /\ ~IsDict(content) THEN content.val ELSE <<>>)
             \o RecordsInFiles(f, paths \ {p})

StoredRecords(f, key) ==
    IF DirExists(f, SessionDir(key)) THEN RecordsInFiles(f, Glob(f, SessionDir(key))) ELSE <<>>

\* the timestamp of the newest stored record of the key, NoTs without one
NewestStored(f, key) ==
    LET stored == StoredRecords(f, key)
        stamps == {stored[i].timestamp : i \in DOMAIN stored}
    IN  CHOOSE t \in stamps \cup {NoTs} : \A u \in stamps : u <= t

(***************************************************************************)
(* hist.commit: the last update_last_upload_info(key, url, ts) made with   *)
(* ts the timestamp of the key's newest stored record while no log_thought *)
(* of the key was running; it lasts (on) until the next log_thought or     *)
(* update_last_upload_info for that key.  asked: the get_records_since     *)
(* call under way or finished was made for (key, ts) while it lasted.      *)
(***************************************************************************)
NoCommit == [on |-> FALSE, key |-> <<>>, url |-> "none", ts |-> NoTs, asked |-> FALSE]

CommitAfterUpdate(key, url, ts) ==
    IF /\ ts # NoTs
       /\ ts = NewestStored(fs, key)
       /\ \A i \in DOMAIN log_tasks :
             log_tasks[i].record.user_key = key => log_tasks[i].pc = "done"
    THEN [on |-> TRUE, key |-> key, url |-> url, ts |-> ts, asked |-> FALSE]
    ELSE IF hist.commit.key = key THEN NoCommit ELSE hist.commit

CommitAfterLog(key) == IF hist.commit.key = key THEN NoCommit ELSE hist.commit

CommitAfterCall(key, last_timestamp) ==
    [hist.commit EXCEPT !.asked = hist.commit.on /\ key = hist.commit.key
                                    /\ last_timestamp = hist.commit.ts]

(***************************************************************************)
(* hist.delta: the export-delta computations made so far without an        *)
(* update_last_upload_info in between: how many (n), for which key and     *)
(* limit, and the batch the last one returned.                             *)
(***************************************************************************)
NoDelta == [pending |-> FALSE, n |-> 0, key |-> <<>>, limit |-> 0, batch |-> <<>>]

HistAfterRead(g) ==
    IF hist.delta.pending /\ g.pc = "done"
    THEN [hist EXCEPT !.delta = [@ EXCEPT !.pending = FALSE, !.n = @ + 1,
                                          !.batch = g.result]]
    ELSE hist

\* get_records_since(key, last_timestamp, limit) is called
GrsCall(key, last_timestamp, limit) ==
    /\ grs.pc = "idle"
    /\ grs' = GrsCallState(fs, key, last_timestamp, limit)
    /\ hist' = [HistAfterRead(grs') EXCEPT !.commit = CommitAfterCall(key, last_timestamp)]
    /\ UNCHANGED <<config, memory, save_tasks, log_tasks, fs, alive, r1, timers>>

\* line 212: aiofiles.open(log_file, 'r'); a missing file raises and is skipped
GrsOpen ==
    /\ grs.pc = "open"
    /\ LET log_file == Head(grs.log_files) IN
       grs' = IF log_file \in DOMAIN fs.names
              THEN [grs EXCEPT !.pc = "read", !.ino = fs.names[log_file]]
              ELSE GrsAdvance([grs EXCEPT !.log_files = Tail(grs.log_files)])
    /\ hist' = HistAfterRead(grs')
    /\ UNCHANGED <<config, memory, save_tasks, log_tasks, fs, alive, r1, timers>>

\* lines 213-221: read, json.loads, extend; an unparseable file is skipped,
\* the TypeError of extend over something that is not a list is not caught;
\* a JSON object extends all_records with its keys, strings, on which the
\* sort of line 221 raises AttributeError
GrsRead ==
    /\ grs.pc = "read"
    /\ LET content == fs.data[grs.ino]
           extended == IF content.kind = "ok"
                       THEN grs.all_records \o content.val
                       ELSE grs.all_records
       IN  grs' = IF content.kind = "notlist" \/ IsDict(content)
                  THEN [grs EXCEPT !.pc = "raised", !.ino = 0]
                  ELSE GrsAdvance([grs EXCEPT !.log_files = Tail(grs.log_files),
                                              !.ino = 0,
                                              !.all_records = extended])
    /\ hist' = HistAfterRead(grs')
    /\ UNCHANGED <<config, memory, save_tasks, log_tasks, fs, alive, r1, timers>>

\* The export-delta read for key: get_last_upload_info(key), then
\* get_records_since(key, its breakpoint_timestamp or none, limit).  A second
\* computation repeats the first one's key and limit.
GetDelta(key, limit) ==
    /\ \/ grs.pc = "idle" /\ hist.delta.n = 0
       \/ /\ grs.pc = "done" /\ hist.delta.n = 1
          /\ key = hist.delta.key /\ limit = hist.delta.limit
    /\ LET got == GetLastUploadInfo(last_uploaded_info, key)
           g == GrsCallState(fs, key, got.ret.breakpoint_timestamp, limit)
       IN  /\ last_uploaded_info' = got.cache
           /\ grs' = g
           /\ hist' = [hist EXCEPT
                         !.delta =
                            IF g.pc = "done"
                            THEN [pending |-> FALSE, n |-> @.n + 1, key |-> key,
                                  limit |-> limit, batch |-> g.result]
                            ELSE [@ EXCEPT !.pending = TRUE, !.key = key, !.limit = limit],
                         !.commit = CommitAfterCall(key, got.ret.breakpoint_timestamp)]
    /\ UNCHANGED <<config, records, save_tasks, log_tasks, fs, alive, r1, timers>>

(***************************************************************************)
(* cache.json: json.dumps of {'records': dict, 'last_uploaded_info': list  *)
(* of [key, value] pairs}, and what _load_cache_from_disk makes of it.     *)
(***************************************************************************)
SnapshotOf(recs, info) ==
    [records |-> {<<k, recs[k]>> : k \in {k \in DOMAIN recs : recs[k] # NoRecord}},
     last_uploaded_info |->
        [i \in 1..Len(info) |->
            <<info[i].key, [url |-> info[i].url,
                            breakpoint_timestamp |-> info[i].breakpoint_timestamp]>>]]

\* cache_data.get('records', {})
LoadRecords(snapshot) ==
    [k \in Keys |-> IF \E pair \in snapshot.records : pair[1] = k
                    THEN (CHOOSE pair \in snapshot.records : pair[1] = k)[2]
                    ELSE NoRecord]

\* OrderedDict(cache_data.get('last_uploaded_info', []))
LoadInfo(snapshot) ==
    [i \in 1..Len(snapshot.last_uploaded_info) |->
        MkInfo(snapshot.last_uploaded_info[i][1],
               snapshot.last_uploaded_info[i][2].url,
               snapshot.last_uploaded_info[i][2].breakpoint_timestamp)]

\* the inodes some coroutine holds open
Held(tasks, g, logs) ==
    ({tasks[id].ino : id \in DOMAIN tasks} \cup {g.ino}
        \cup {logs[i].ino : i \in DOMAIN logs}) \ {0}

(***************************************************************************)
(* Time.  timers.left[key] lists, oldest first, what is left of the        *)
(* asyncio.sleep (line 83) of every debounce task of the key that sleeps   *)
(* and was not cancelled, in ticks; timers.idle[key] is the time since the *)
(* last mutating call for the key, counted up to the inactivity window.    *)
(* Time passes in Tick only: a specification without Tick lets a sleep     *)
(* return at any moment.                                                   *)
(***************************************************************************)
\* user_inactivity_timeout_seconds, in ticks
Window == 2

NoTimers == [left |-> [k \in Keys |-> <<>>], idle |-> [k \in Keys |-> Window]]

\* list[:-1]
Front(list) == SubSeq(list, 1, Len(list) - 1)

\* _manage_user_save_task without the cancel of lines 79-80
RearmNoCancel(t, enabled, sleeping, key) ==
    IF ~enabled THEN [t EXCEPT !.idle[key] = 0]
    ELSE [t EXCEPT !.idle[key] = 0, !.left[key] = Append(@, Window)]

\* a mutating call for key: _manage_user_save_task, lines 75-87.  `sleeping`
\* is whether user_save_tasks[key], the task created last for the key, sleeps;
\* it is cancelled, and the new task sleeps a whole window
Rearm(t, enabled, sleeping, key) ==
    IF ~enabled THEN [t EXCEPT !.idle[key] = 0]
    ELSE [t EXCEPT !.idle[key] = 0,
                   !.left[key] = Append(IF sleeping THEN Front(@) ELSE @, Window)]

\* the sleep of the task user_save_tasks[id] returns
Fired(t, id) ==
    IF id \in Keys /\ t.left[id] # <<>> THEN [t EXCEPT !.left[id] = Front(@)] ELSE t

\* a tick passes
Elapsed(t) ==
    [left |-> [k \in Keys |->
                [i \in 1..Len(t.left[k]) |->
                    IF t.left[k][i] > 0 THEN t.left[k][i] - 1 ELSE 0]],
     idle |-> [k \in Keys |-> IF t.idle[k] < Window THEN t.idle[k] + 1 ELSE Window]]

(***************************************************************************)
(* hist.lost: whether some _save_cache_to_disk_async has ended without     *)
(* replacing cache.json (an IOError line 72 catches, or the cancellation   *)
(* of its task while it was saving), and whether cache.json held a         *)
(* complete snapshot when the first one did.                               *)
(***************************************************************************)
\* the task is between line 68 and line 70
Saving(task) == task.pc \in {"open", "write", "close", "replace"}

\* cache.json exists and json.load accepts it
CacheComplete(f) == CachePath \in DOMAIN f.names /\ f.data[f.names[CachePath]].kind = "ok"

SaveLost(h, f) ==
    IF h.lost.on THEN h ELSE [h EXCEPT !.lost = [on |-> TRUE, had |-> CacheComplete(f)]]

\* task.cancel() of lines 79-80 and 246
AfterCancel(h, f, enabled, task) == IF enabled /\ Saving(task) THEN SaveLost(h, f) ELSE h

(***************************************************************************)
(* The watermark cache calls.  hist.recency lists the cached keys from the *)
(* least to the most recently used (read or written).                      *)
(***************************************************************************)
\* get_last_upload_info(key)
GetInfo(key) ==
    /\ alive
    /\ last_uploaded_info' = GetLastUploadInfo(last_uploaded_info, key).cache
    /\ HasInfo(last_uploaded_info, key)
    /\ hist' = [hist EXCEPT !.recency = MoveToEnd(@, key)]
    /\ UNCHANGED <<config, records, save_tasks, log_tasks, fs, grs, alive, r1, timers>>

\* update_last_upload_info(key, url, breakpoint_timestamp), lines 171-182
UpdateLastUploadInfo(key, url, ts) ==
    /\ alive
    /\ last_uploaded_info' = UpdateInfo(last_uploaded_info, key, url, ts, upload_cache_size)
    /\ save_tasks' = ManageUserSaveTask(save_tasks, enable_persistence, key)
    /\ hist' = [AfterCancel(hist, fs, enable_persistence, save_tasks[key]) EXCEPT
                  !.recency = SelectSeq(MoveToEnd(@, key),
                                        LAMBDA k : HasInfo(last_uploaded_info', k)),
                  !.delta = NoDelta,
                  !.commit = CommitAfterUpdate(key, url, ts)]
    /\ fs' = Reclaim(fs, Held(save_tasks', grs, log_tasks))
    /\ UNCHANGED <<config, records, log_tasks, grs, alive, r1>>
    /\ timers' = Rearm(timers, enable_persistence, save_tasks[key].pc = "sleep", key)

(***************************************************************************)
(* _save_cache_to_disk_async, lines 58-73, one action per await, run by    *)
(* the save task id.                                                       *)
(***************************************************************************)
\* lines 60-68: up to the await of aiofiles.open
SaveBegin(enabled, info) ==
    IF enabled THEN [pc |-> "open", info |-> info, ino |-> 0]
    ELSE [pc |-> "done", info |-> <<>>, ino |-> 0]

\* what the task does once the save is over: the periodic loop sleeps again
\* (line 92), the coroutine of terminate is done, a debounce task is done too
\* and counts as no task (line 78 only asks whether it is done)
SaveEnd(id) ==
    IF id = Periodic THEN Sleeping
    ELSE IF id = Terminate THEN [pc |-> "done", info |-> <<>>, ino |-> 0]
    ELSE NoTask

\* asyncio.sleep returns in _save_after_timeout (line 83) or in the periodic
\* loop (line 92): the save begins
TimerFires(id) ==
    /\ save_tasks[id].pc = "sleep"
    /\ save_tasks' = [save_tasks EXCEPT
                        ![id] = SaveBegin(enable_persistence, last_uploaded_info)]
    /\ UNCHANGED <<config, memory, log_tasks, fs, grs, alive, hist, r1>>
    /\ timers' = Fired(timers, id)

\* line 68: aiofiles.open(temp_file, 'w'); it may raise IOError, which line 72
\* catches
SaveOpen(id) ==
    /\ save_tasks[id].pc = "open"
    /\ \/ LET opened == FsOpenW(fs, CacheTmp) IN
          /\ save_tasks' = [save_tasks EXCEPT ![id].pc = "write",
                                              ![id].ino = opened.names[CacheTmp]]
          /\ fs' = Reclaim(opened, Held(save_tasks', grs, log_tasks))
          /\ hist' = hist
       \/ /\ save_tasks' = [save_tasks EXCEPT ![id] = SaveEnd(id)]
          /\ fs' = fs
          /\ hist' = SaveLost(hist, fs)
    /\ UNCHANGED <<config, memory, log_tasks, grs, alive, r1, timers>>

\* line 69: json.dumps(cache_data) of the records as they are now and of the
\* list taken at line 65, written to the open temp file
SaveWrite(id) ==
    /\ save_tasks[id].pc = "write"
    /\ \/ /\ fs' \in FsWriteOutcomes(fs, save_tasks[id].ino,
                                     Ok(<<SnapshotOf(records, save_tasks[id].info)>>))
          /\ save_tasks' = [save_tasks EXCEPT ![id].pc = "close", ![id].info = <<>>]
          /\ hist' = hist
       \* the write raises IOError (a full disk) with part of the bytes written;
       \* the file is closed and line 72 catches the error
       \/ /\ save_tasks' = [save_tasks EXCEPT ![id] = SaveEnd(id)]
          /\ fs' = Reclaim([fs EXCEPT !.data[save_tasks[id].ino] = CorruptFile,
                                      !.mtime = Touch(fs, save_tasks[id].ino)],
                           Held(save_tasks', grs, log_tasks))
          /\ hist' = SaveLost(hist, fs)
    /\ UNCHANGED <<config, memory, log_tasks, grs, alive, r1, timers>>

\* line 68, leaving the async with: the file is closed
SaveClose(id) ==
    /\ save_tasks[id].pc = "close"
    /\ save_tasks' = [save_tasks EXCEPT ![id].pc = "replace", ![id].ino = 0]
    /\ fs' = Reclaim(fs, Held(save_tasks', grs, log_tasks))
    /\ UNCHANGED <<config, memory, log_tasks, grs, alive, hist, r1, timers>>

\* line 70: os.replace(temp_file, cache_file_path); a missing temp file raises
\* FileNotFoundError, which line 72 catches
SaveReplace(id) ==
    /\ save_tasks[id].pc = "replace"
    /\ save_tasks' = [save_tasks EXCEPT ![id] = SaveEnd(id)]
    /\ fs' = IF CacheTmp \in DOMAIN fs.names
             THEN Reclaim(FsReplace(fs, CacheTmp, CachePath), Held(save_tasks', grs, log_tasks))
             ELSE fs
    /\ hist' = IF CacheTmp \in DOMAIN fs.names THEN hist ELSE SaveLost(hist, fs)
    /\ UNCHANGED <<config, memory, log_tasks, grs, alive, r1, timers>>

\* terminate(), lines 244-248, and the caller awaiting the coroutine it
\* returns: the periodic task is cancelled, the final save begins
TerminateCall ==
    /\ alive
    /\ alive' = FALSE
    /\ save_tasks' = [save_tasks EXCEPT
          ![Periodic] = IF @.pc = "none" THEN @
                        ELSE [pc |-> "cancelled", info |-> <<>>, ino |-> 0],
          ![Terminate] = SaveBegin(enable_persistence, last_uploaded_info)]
    /\ hist' = [AfterCancel(hist, fs, enable_persistence, save_tasks[Periodic]) EXCEPT
                    !.at_terminate = SnapshotOf(records, last_uploaded_info)]
    /\ fs' = Reclaim(fs, Held(save_tasks', grs, log_tasks))
    /\ UNCHANGED <<config, memory, log_tasks, grs, r1, timers>>

\* _load_cache_from_disk, lines 45-56
LoadCacheFromDisk(f) ==
    IF CachePath \in DOMAIN f.names /\ f.data[f.names[CachePath]].kind = "ok"
    THEN LET snapshot == f.data[f.names[CachePath]].val[1] IN
         [records |-> LoadRecords(snapshot), last_uploaded_info |-> LoadInfo(snapshot)]
    ELSE [records |-> [k \in Keys |-> NoRecord], last_uploaded_info |-> <<>>]

\* the history variable before any call
HistInit == [delta |-> NoDelta, recency |-> <<>>, commit |-> NoCommit,
             at_terminate |-> SnapshotOf(<<>>, <<>>),
             lost |-> [on |-> FALSE, had |-> FALSE]]

\* The process ends (killed, or exited after terminate) and is started again
\* with upload_cache_size = size: __init__, lines 17-43.
Restart(size) ==
    /\ upload_cache_size' = size
    /\ records' = IF enable_persistence THEN LoadCacheFromDisk(fs).records
                   ELSE [k \in Keys |-> NoRecord]
    /\ last_uploaded_info' = IF enable_persistence
                              THEN LoadCacheFromDisk(fs).last_uploaded_info ELSE <<>>
    /\ save_tasks' = [id \in TaskIds |-> IF id = Periodic /\ enable_persistence
                                          THEN Sleeping ELSE NoTask]
    /\ log_tasks' = <<>>
    /\ grs' = GrsIdle
    /\ alive' = TRUE
    /\ fs' = Reclaim(fs, {})
    /\ hist' = HistInit
    /\ UNCHANGED <<enable_persistence, log_rotation_count, r1>>
    /\ timers' = NoTimers

(***************************************************************************)
(* log_thought, lines 96-161, called as a task: log_tasks lists the calls  *)
(* in invocation order.  pc "start": the task is created and has not run;  *)
(* then the await it is suspended at: "ropen" and "read" (lines 136-137),  *)
(* "open", "write", "close" (lines 148-149), "replace" (line 150).         *)
(* log_files, path (current_log_file_path) and log_data are the locals of  *)
(* the call, ino the file it has open, failed whether the write of line    *)
(* 149 raised, ok whether line 150 succeeded, ret what the caller of the   *)
(* finished call has received.                                             *)
(***************************************************************************)
NewLogTask(record) ==
    [pc |-> "start", record |-> record, log_files |-> <<>>,
     path |-> Path(<<>>, 0, "json"), log_data |-> <<>>, ino |-> 0,
     failed |-> FALSE, ok |-> FALSE, ret |-> "pending"]

\* every return of log_thought (lines 99, 127 and the end of the function)
\* gives the caller None
LogReturned(task) == [task EXCEPT !.pc = "done", !.ret = "None"]

\* log_thought ends with an exception no except clause catches
LogRaised(task) == [task EXCEPT !.pc = "done", !.ret = "raised"]

\* current_log_file_path.with_suffix('.json.tmp')
TempOf(path) == Path(path.dir, path.name, "tmp")

\* datetime.now().strftime('%Y%m%d_%H%M%S'): the second of the latest name
\* made so far, or a later one
NewNames(f, logs) ==
    LET made == {p.name : p \in DOMAIN f.names} \cup {logs[i].path.name : i \in DOMAIN logs}
        latest == CHOOSE n \in made \cup {0} : \A m \in made : m <= n
    IN  {latest, latest + 1} \ {0}

\* list[k:]
SliceFrom(list, k) ==
    LET from == IF k >= 0 THEN k ELSE IF Len(list) + k >= 0 THEN Len(list) + k ELSE 0
    IN  SubSeq(list, from + 1, Len(list))

\* lines 155-161: os.remove of log_files[log_rotation_count-1:]; a file that is
\* gone raises OSError, which line 160 catches
RECURSIVE RemoveAll(_, _)
RemoveAll(f, paths) ==
    IF paths = <<>> THEN f
    ELSE RemoveAll(IF Head(paths) \in DOMAIN f.names THEN FsRemove(f, Head(paths)) ELSE f,
                   Tail(paths))

Rotate(f, log_files, count) ==
    IF Len(log_files) >= count THEN RemoveAll(f, SliceFrom(log_files, count - 1)) ELSE f

\* log_thought(record) is called: the task is created
LogCall(key) ==
    /\ alive
    /\ Len(log_tasks) < MaxCalls
    /\ log_tasks' = Append(log_tasks, NewLogTask(MkRecord(key, Len(log_tasks) + 1, "r")))
    /\ hist' = [hist EXCEPT !.commit = CommitAfterLog(key)]
    /\ UNCHANGED <<config, memory, save_tasks, fs, grs, alive, r1, timers>>

\* lines 98-133, the task runs up to its first await; tasks start in the
\* order of their creation
LogStart(i) ==
    /\ i \in DOMAIN log_tasks
    /\ log_tasks[i].pc = "start"
    /\ \A j \in 1..(i - 1) : log_tasks[j].pc # "start"
    /\ IF ~enable_persistence
       THEN /\ log_tasks' = [log_tasks EXCEPT ![i] = LogReturned(@)]
            /\ UNCHANGED <<records, save_tasks, fs, r1, timers>>
       ELSE LET record == log_tasks[i].record
                user_key == record.user_key
                session_dir == SessionDir(user_key)
                log_files == SortedByMtimeDesc(fs, Glob(fs, session_dir))
            IN  /\ records' = [records EXCEPT ![user_key] = record]
                /\ save_tasks' = ManageUserSaveTask(save_tasks, enable_persistence, user_key)
                /\ timers' = Rearm(timers, enable_persistence,
                                   save_tasks[user_key].pc = "sleep", user_key)
                /\ \/ \E name \in NewNames(fs, log_tasks) :
                        /\ log_tasks' = [log_tasks EXCEPT ![i] =
                              [@ EXCEPT !.log_files = log_files,
                                        !.path = Path(session_dir, name, "json"),
                                        !.log_data = <<record>>,
                                        !.pc = IF log_files = <<>> THEN "open" ELSE "ropen"]]
                        /\ fs' = Reclaim([fs EXCEPT !.dirs = @ \cup ({session_dir} \ {StorageDir})],
                                         Held(save_tasks', grs, log_tasks'))
                   \* lines 123-127: mkdir of a missing session_dir raises OSError
                   \/ /\ ~DirExists(fs, session_dir)
                      /\ log_tasks' = [log_tasks EXCEPT ![i] =
                                            LogReturned([@ EXCEPT !.failed = TRUE])]
                      /\ fs' = Reclaim(fs, Held(save_tasks', grs, log_tasks'))
    /\ hist' = AfterCancel(hist, fs, enable_persistence,
                            save_tasks[log_tasks[i].record.user_key])
    /\ UNCHANGED <<config, last_uploaded_info, grs, alive, r1>>

\* line 136: aiofiles.open(latest_log_file, 'r'); a missing file raises IOError
\* and the record goes to a new file
LogReadOpen(i) ==
    /\ i \in DOMAIN log_tasks
    /\ log_tasks[i].pc = "ropen"
    /\ LET latest_log_file == Head(log_tasks[i].log_files) IN
       log_tasks' = IF latest_log_file \in DOMAIN fs.names
                    THEN [log_tasks EXCEPT ![i].pc = "read",
                                           ![i].ino = fs.names[latest_log_file]]
                    ELSE [log_tasks EXCEPT ![i].pc = "open"]
    /\ UNCHANGED <<config, memory, save_tasks, fs, grs, alive, hist, r1, timers>>

\* lines 137-144: read, json.loads, append; an unparseable latest file leaves
\* log_data empty and the record goes to a new file; a JSON object has no
\* append, and the AttributeError of line 144 is not caught
LogRead(i) ==
    /\ i \in DOMAIN log_tasks
    /\ log_tasks[i].pc = "read"
    /\ LET content == fs.data[log_tasks[i].ino] IN
       log_tasks' = IF IsDict(content)
                    THEN [log_tasks EXCEPT ![i] = LogRaised([@ EXCEPT !.ino = 0])]
                    ELSE IF content.kind = "ok"
                    THEN [log_tasks EXCEPT
                            ![i].pc = "open", ![i].ino = 0,
                            ![i].log_data = Append(content.val, log_tasks[i].record),
                            ![i].path = Head(log_tasks[i].log_files)]
                    ELSE [log_tasks EXCEPT ![i].pc = "open", ![i].ino = 0]
    /\ fs' = Reclaim(fs, Held(save_tasks, grs, log_tasks'))
    /\ UNCHANGED <<config, memory, save_tasks, grs, alive, hist, r1, timers>>

\* line 148: aiofiles.open(temp_file, 'w')
LogOpen(i) ==
    /\ i \in DOMAIN log_tasks
    /\ log_tasks[i].pc = "open"
    /\ LET temp_file == TempOf(log_tasks[i].path)
           opened == FsOpenW(fs, temp_file)
       IN  /\ log_tasks' = [log_tasks EXCEPT ![i].pc = "write",
                                             ![i].ino = opened.names[temp_file]]
           /\ fs' = Reclaim(opened, Held(save_tasks, grs, log_tasks'))
    /\ UNCHANGED <<config, memory, save_tasks, grs, alive, hist, r1, timers>>

\* line 149: f.write(json.dumps(log_data)); a write that raises IOError (a
\* full disk) leaves part of the bytes in the temp file
LogWrite(i) ==
    /\ i \in DOMAIN log_tasks
    /\ log_tasks[i].pc = "write"
    /\ \/ /\ fs' \in FsWriteOutcomes(fs, log_tasks[i].ino, Ok(log_tasks[i].log_data))
          /\ log_tasks' = [log_tasks EXCEPT ![i].pc = "close"]
       \/ /\ fs' = [fs EXCEPT !.data[log_tasks[i].ino] = CorruptFile,
                              !.mtime = Touch(fs, log_tasks[i].ino)]
          /\ log_tasks' = [log_tasks EXCEPT ![i].pc = "close", ![i].failed = TRUE]
    /\ UNCHANGED <<config, memory, save_tasks, grs, alive, hist, r1, timers>>

\* line 148, leaving the async with: the file is closed; after a failed write
\* line 152 catches the IOError and the rotation of lines 155-161 runs
LogClose(i) ==
    /\ i \in DOMAIN log_tasks
    /\ log_tasks[i].pc = "close"
    /\ log_tasks' = IF log_tasks[i].failed
                    THEN [log_tasks EXCEPT ![i] = LogReturned([@ EXCEPT !.ino = 0])]
                    ELSE [log_tasks EXCEPT ![i].pc = "replace", ![i].ino = 0]
    /\ fs' = Reclaim(IF log_tasks[i].failed
                     THEN Rotate(fs, log_tasks[i].log_files, log_rotation_count)
                     ELSE fs,
                     Held(save_tasks, grs, log_tasks'))
    /\ UNCHANGED <<config, memory, save_tasks, grs, alive, hist, r1, timers>>

\* lines 150-161: os.replace(temp_file, current_log_file_path), a missing temp
\* file raising FileNotFoundError, which line 152 catches; then the rotation
LogReplace(i) ==
    /\ i \in DOMAIN log_tasks
    /\ log_tasks[i].pc = "replace"
    /\ LET task == log_tasks[i]
           temp_file == TempOf(task.path)
           renamed == temp_file \in DOMAIN fs.names
           replaced == IF renamed THEN FsReplace(fs, temp_file, task.path) ELSE fs
       IN  /\ log_tasks' = [log_tasks EXCEPT ![i] = LogReturned([@ EXCEPT !.ok = renamed])]
           /\ fs' = Reclaim(Rotate(replaced, task.log_files, log_rotation_count),
                            Held(save_tasks, grs, log_tasks'))
    /\ UNCHANGED <<config, memory, save_tasks, grs, alive, hist, r1, timers>>

(***************************************************************************)
(* Initial values shared by the specifications.                            *)
(***************************************************************************)
(***************************************************************************)
(* R1Filter (src/main.py): the plugin object.  It reads the same general.* *)
(* settings and keeps its own records, upload cache and files:             *)
(*                                                                         *)
(*   r1.loaded              the _loaded event                              *)
(*   r1.records             self.records                                   *)
(*   r1.last_uploaded_info  self.last_uploaded_info, in OrderedDict order  *)
(*   r1.cache_file          hina_thoughts_cache.json                       *)
(*   r1.cache_tmp           whether hina_thoughts_cache.json.tmp exists    *)
(*   r1.logs                per key, the files hina_thoughts_log_<n>.json  *)
(*                          of its session directory, by index             *)
(*   r1.r2_empty            the r2.* settings that are empty               *)
(*   r1.tasks               the tasks resp created and that have not run,  *)
(*                          oldest first                                   *)
(*   r1.finished            the task that ended last                       *)
(*   r1.memo                per key, the running memohina_command          *)
(*   r1.think               per key, what think_command answered last      *)
(*   r1.clock               datetime.now()                                 *)
(*   r1.ingested            per key, the last record resp built; history   *)
(*                          kept for the properties                        *)
(*                                                                         *)
(* Every file access of this class is synchronous, _loaded.wait() on a set *)
(* event and the acquisition of a free lock do not suspend, and no lock is *)
(* held across an await: a task runs from start to end in one step once    *)
(* _loaded is set, and the tasks run in the order they were created.       *)
(* A temporary log file a failed write leaves behind is not kept: no code  *)
(* reads it, and the next write of that segment truncates it.  Nor are the *)
(* files think_command exports (lines 401-425), which no code reads.       *)
(***************************************************************************)
\* calls of datetime.now() in the specifications of R1Filter
MaxClock == 3

\* the r2.* settings upload_file_to_r2 is given (main.py lines 467-471)
Credentials ==
    {"r2_account_id", "r2_access_key_id", "r2_secret_access_key", "r2_bucket_name"}

\* _calculate_file_hash, lines 580-594: the SHA-256 of the bytes of the file;
\* '' when the file cannot be read
NoHash == <<>>
FileHash(content) == <<"sha256", content>>
CalculateFileHash(content) == {FileHash(content), NoHash}

MkUpload(key, hash, url) == [key |-> key, hash |-> hash, url |-> url]

\* self.last_uploaded_info.get(user_key)
UploadOf(cache, key) == cache[CHOOSE i \in 1..Len(cache) : cache[i].key = key]

\* OrderedDict.move_to_end(key)
MoveKeyToEnd(cache, key) ==
    SelectSeq(cache, LAMBDA e : e.key # key) \o <<UploadOf(cache, key)>>

\* line 452: last_upload and last_upload.get('hash') == current_hash
CacheHit(cache, key, hash) == HasInfo(cache, key) /\ UploadOf(cache, key).hash = hash

\* lines 480-487: set the entry, move it to the end, drop the oldest entry when
\* the cache is over its size
CommitUpload(cache, key, hash, url, size) ==
    LET set == IF HasInfo(cache, key)
               THEN [i \in 1..Len(cache) |->
                        IF cache[i].key = key THEN MkUpload(key, hash, url) ELSE cache[i]]
               ELSE Append(cache, MkUpload(key, hash, url))
        moved == MoveKeyToEnd(set, key)
    IN  IF Len(moved) > size THEN Tail(moved) ELSE moved

\* the cache after the lookup of lines 451-459, were the entry of a changed
\* file written before its upload
CacheAfterLookupSpeculative(cache, key, hash, size) ==
    IF CacheHit(cache, key, hash) THEN MoveKeyToEnd(cache, key)
    ELSE CommitUpload(cache, key, hash, "pending", size)

\* the cache after the lookup of lines 451-459
CacheAfterLookup(cache, key, hash, size) ==
    IF CacheHit(cache, key, hash) THEN MoveKeyToEnd(cache, key) ELSE cache

\* r2_upload.upload_file_to_r2: the ways the call can end.  `attempted` is
\* whether s3_client.upload_file (line 33) was called; `raised` the class of
\* the exception that leaves the function, "none" when it returns the URL.
\* The function compares no setting with '': with an empty setting it goes on
\* to boto3.client and s3_client.upload_file like with a full one.  What the
\* library and the service then do is not in the source: the service is taken
\* not to store an object for a request with an empty setting, and
\* boto3.client (line 25) may raise.
UploadFileToR2(empty) ==
    {[attempted |-> TRUE, raised |-> "R2UploadError"],     \* lines 34-36
     [attempted |-> TRUE, raised |-> "Exception"]}         \* not caught at line 34
    \cup (IF empty = {} THEN {[attempted |-> TRUE, raised |-> "none"]}
          ELSE {[attempted |-> FALSE, raised |-> "Exception"]})

\* event.plain_result(...) of memohina_command
Reply(msg, arg) == [msg |-> msg, arg |-> arg]

NoCall == [pc |-> "idle", hash |-> NoHash, url |-> <<>>, replies |-> <<>>,
           attempted |-> FALSE, raised |-> "none"]

\* a task resp created
R1Task(kind, record) == [kind |-> kind, record |-> record, pc |-> "pending", ok |-> FALSE]

\* R1Filter.__init__, lines 32-73
R1New(enabled, cache_file, logs, r2_empty) ==
    [loaded |-> ~enabled,
     records |-> [k \in Keys |-> NoRecord],
     last_uploaded_info |-> <<>>,
     cache_file |-> cache_file,
     cache_tmp |-> FALSE,
     logs |-> logs,
     r2_empty |-> r2_empty,
     tasks |-> <<>>,
     finished |-> R1Task("none", NoRecord),
     memo |-> [k \in Keys |-> NoCall],
     think |-> [k \in Keys |-> Reply("none", <<>>)],
     clock |-> 0,
     ingested |-> [k \in Keys |-> NoRecord]]

NoLogs == [k \in Keys |-> <<>>]

\* the object when nothing uses it
R1Unused == R1New(FALSE, EmptyFile, NoLogs, {})

\* _load_data_from_cache, lines 84-96; reading the file may fail
R1Load ==
    /\ ~r1.loaded
    /\ \E readable \in BOOLEAN :
        r1' = [r1 EXCEPT !.loaded = TRUE,
                         !.records = IF readable /\ r1.cache_file.kind = "ok"
                                     THEN r1.cache_file.val ELSE @]
    /\ UNCHANGED pm

\* resp, were it not to wait for _loaded at line 357
RespUngated(key, reasoning_content) ==
    /\ r1.clock < MaxClock
    /\ IF reasoning_content = ""
       THEN r1' = r1
       ELSE LET record == MkRecord(key, r1.clock + 1, reasoning_content) IN
            r1' = [r1 EXCEPT !.clock = @ + 1,
                             !.records[key] = record,
                             !.ingested[key] = record,
                             !.tasks = @ \o <<R1Task("save", record), R1Task("log", record)>>]
    /\ UNCHANGED pm

\* resp, lines 355-379
Resp(key, reasoning_content) ==
    /\ r1.loaded
    /\ r1.clock < MaxClock
    /\ IF reasoning_content = ""
       THEN r1' = r1
       ELSE LET record == MkRecord(key, r1.clock + 1, reasoning_content) IN
            r1' = [r1 EXCEPT !.clock = @ + 1,
                             !.records[key] = record,
                             !.ingested[key] = record,
                             !.tasks = @ \o <<R1Task("save", record), R1Task("log", record)>>]
    /\ UNCHANGED pm

\* a task that ended, `ok` when it wrote its file
Finished(task, ok) == [task EXCEPT !.pc = "done", !.ok = ok]

\* _save_data_to_cache, lines 162-181
SaveDataToCache(task) ==
    IF ~enable_persistence
    THEN r1' = [r1 EXCEPT !.tasks = Tail(@), !.finished = Finished(task, FALSE)]
    ELSE \/ r1' = [r1 EXCEPT !.tasks = Tail(@), !.finished = Finished(task, TRUE),
                             !.cache_file = Ok(r1.records), !.cache_tmp = FALSE]
         \/ \E left \in BOOLEAN :                        \* lines 175-181
                r1' = [r1 EXCEPT !.tasks = Tail(@), !.finished = Finished(task, FALSE),
                                 !.cache_tmp = left]

\* lines 128-150 were line 133 to compare with <= in place of <
LogTargetOverfull(segments, record, rotation, readable) ==
    LET n == Len(segments) IN
    IF n = 0 THEN [index |-> 1, log_data |-> <<record>>]
    ELSE IF readable /\ segments[n].kind = "ok" /\ Len(segments[n].val) <= rotation
         THEN [index |-> n, log_data |-> Append(segments[n].val, record)]
         ELSE [index |-> n + 1, log_data |-> <<record>>]

\* lines 128-150 were line 150 to put the record at the head of log_data
LogTargetPrepending(segments, record, rotation, readable) ==
    LET n == Len(segments) IN
    IF n = 0 THEN [index |-> 1, log_data |-> <<record>>]
    ELSE IF readable /\ segments[n].kind = "ok" /\ Len(segments[n].val) < rotation
         THEN [index |-> n, log_data |-> <<record>> \o segments[n].val]
         ELSE [index |-> n + 1, log_data |-> <<record>>]

\* lines 128-150: the file to write and the list to write into it
LogTarget(segments, record, rotation, readable) ==
    LET n == Len(segments) IN
    IF n = 0 THEN [index |-> 1, log_data |-> <<record>>]
    ELSE IF readable /\ segments[n].kind = "ok" /\ Len(segments[n].val) < rotation
         THEN [index |-> n, log_data |-> Append(segments[n].val, record)]
         ELSE [index |-> n + 1, log_data |-> <<record>>]

\* _log_thought, lines 98-160; mkdir, the read of the latest file and the
\* write may fail
LogThought(task) ==
    LET record == task.record
        key == record.user_key
        segments == r1.logs[key]
    IN
    IF ~enable_persistence \/ log_rotation_count <= 0
    THEN r1' = [r1 EXCEPT !.tasks = Tail(@), !.finished = Finished(task, FALSE)]
    ELSE \/ r1' = [r1 EXCEPT !.tasks = Tail(@),         \* lines 110-112, 159-160
                             !.finished = Finished(task, FALSE)]
         \/ \E readable \in BOOLEAN :
                LET target == LogTarget(segments, record, log_rotation_count, readable) IN
                r1' = [r1 EXCEPT !.tasks = Tail(@), !.finished = Finished(task, TRUE),
                                 !.logs[key] =
                                    IF target.index > Len(segments)
                                    THEN Append(segments, Ok(target.log_data))
                                    ELSE [segments EXCEPT ![target.index] = Ok(target.log_data)]]

\* the event loop runs the oldest task that is ready
TaskRun ==
    /\ r1.loaded
    /\ r1.tasks # <<>>
    /\ LET task == Head(r1.tasks) IN
       IF task.kind = "save" THEN SaveDataToCache(task) ELSE LogThought(task)
    /\ UNCHANGED pm

\* the record of the key in the snapshot hina_thoughts_cache.json holds
RecordSaved(r, key) == IF r.cache_file.kind = "ok" THEN r.cache_file.val[key] ELSE NoRecord

\* line 387: self.records.get(user_key)
RecordOf(r, key) == r.records[key]

\* think_command, lines 382-399
Think(key) ==
    /\ r1.loaded
    /\ LET record == RecordOf(r1, key) IN
       IF record = NoRecord
       THEN r1' = [r1 EXCEPT !.think[key] = Reply("nothing", <<>>)]
       ELSE r1' = [r1 EXCEPT !.think[key] = Reply("reasoning", record)]
    /\ UNCHANGED pm

\* lines 451-478, from the cache lookup to the await of the upload
MemoLookup(key, call) ==
    LET cache == r1.last_uploaded_info IN
    IF CacheHit(cache, key, call.hash)
    THEN [r1 EXCEPT !.last_uploaded_info =
                        CacheAfterLookup(cache, key, call.hash, upload_cache_size),
                    !.memo[key] =
                        [call EXCEPT !.pc = "done",
                                     !.replies = Append(@, Reply("unchanged",
                                                            UploadOf(cache, key).url))]]
    ELSE [r1 EXCEPT !.last_uploaded_info =
                        CacheAfterLookup(cache, key, call.hash, upload_cache_size),
                    !.clock = @ + 1,
                    !.memo[key] = [call EXCEPT !.pc = "upload",
                                               !.url = <<key, r1.clock + 1>>]]

\* memohina_command, lines 428-478: up to its first suspension
MemoCall(key) ==
    /\ r1.loaded
    /\ r1.memo[key].pc \in {"idle", "done"}
    /\ r1.clock < MaxClock
    /\ LET segments == r1.logs[key] IN
       IF segments = <<>>
       THEN r1' = [r1 EXCEPT !.memo[key] =
                       [NoCall EXCEPT !.pc = "done",
                                      !.replies = <<Reply("no memory", <<>>)>>]]
       ELSE \E hash \in CalculateFileHash(segments[Len(segments)]) :
                IF hash = NoHash
                THEN r1' = [r1 EXCEPT !.memo[key] =            \* the yield of line 449
                                [NoCall EXCEPT !.pc = "unreadable",
                                               !.replies = <<Reply("unreadable", <<>>)>>]]
                ELSE r1' = MemoLookup(key, [NoCall EXCEPT !.hash = hash])
    /\ UNCHANGED pm

\* memohina_command resumed after the yield of line 449
MemoResume(key) ==
    /\ r1.memo[key].pc = "unreadable"
    /\ r1.clock < MaxClock
    /\ r1' = MemoLookup(key, r1.memo[key])
    /\ UNCHANGED pm

\* lines 473-497: upload_file_to_r2 ends, in the thread of asyncio.to_thread
UploadDone(key) ==
    /\ r1.memo[key].pc = "upload"
    /\ \E end \in UploadFileToR2(r1.r2_empty) :
        LET call == [r1.memo[key] EXCEPT !.pc = "done", !.attempted = end.attempted,
                                         !.raised = end.raised]
        IN  IF end.raised = "none"
            THEN r1' = [r1 EXCEPT
                    !.last_uploaded_info =
                        CommitUpload(@, key, call.hash, call.url, upload_cache_size),
                    !.memo[key] = [call EXCEPT !.replies =
                                        Append(@, Reply("uploaded", call.url))]]
            ELSE r1' = [r1 EXCEPT                                \* lines 495-497
                    !.memo[key] = [call EXCEPT !.replies =
                                        Append(@, Reply("failed", end.raised))]]
    /\ UNCHANGED pm

\* persistence enabled, the largest watermark cache of the model, the default
\* log_rotation_count (line 25)
DefaultConfig ==
    /\ enable_persistence = TRUE
    /\ upload_cache_size = MaxCacheSize
    /\ log_rotation_count = DefaultRotationCount

\* PersistenceManager with no task and nothing in memory
PmQuiet ==
    /\ records = [k \in Keys |-> NoRecord]
    /\ save_tasks = [id \in TaskIds |-> NoTask]
    /\ log_tasks = <<>>
    /\ grs = GrsIdle
    /\ alive = TRUE
    /\ hist = HistInit
    /\ timers = NoTimers

\* no task, nothing in memory
InitQuiet ==
    /\ PmQuiet
    /\ r1 = R1Unused

(***************************************************************************)
(* SpecRead: get_records_since as a function of the stored segments.  The  *)
(* initial states draw one partition (its segment files, newest last, each *)
(* a list of records or unparseable), the calls draw cutoff and limit.     *)
(***************************************************************************)
\* enough ranks to order the records of a partition, ties included
Timestamps == 1..(MaxTotal - 1)
Cutoffs == {NoTs} \cup Timestamps
Limits == 0..MaxTotal

RecordsOfKey(key) == {MkRecord(key, ts, "r") : ts \in {NoTs} \cup Timestamps}

\* the lists of at most n records of the key
RecordLists(key, n) == UNION {[1..m -> RecordsOfKey(key)] : m \in 0..n}

\* the contents a segment file may have with at most n records
FileChoices(key, n) == {CorruptFile} \cup {Ok(l) : l \in RecordLists(key, n)}

\* the sequences of exactly nfiles segment files holding at most total records
RECURSIVE PartitionsOf(_, _, _)
PartitionsOf(key, nfiles, total) ==
    IF nfiles = 0 THEN {<<>>}
    ELSE UNION {{<<c>> \o rest : rest \in PartitionsOf(key, nfiles - 1, total - Len(c.val))}
                : c \in FileChoices(key, total)}

Partitions(key) == UNION {PartitionsOf(key, n, MaxTotal) : n \in 0..MaxFiles}

\* the same with one record less, for SpecDelta
SmallPartitions(key) == UNION {PartitionsOf(key, n, MaxTotal - 1) : n \in 0..MaxFiles}

\* the file system holding the segment files part[1] (oldest) .. part[n] (newest)
\* in the partition of key
MkFs(key, part) ==
    [names |-> [p \in {Path(SessionDir(key), i, "json") : i \in 1..Len(part)} |-> p.name],
     data  |-> part,
     mtime |-> [i \in 1..Len(part) |-> i],
     dirs  |-> {SessionDir(key)}]

InitRead ==
    /\ DefaultConfig
    /\ InitQuiet
    /\ last_uploaded_info = <<>>
    /\ \E part \in Partitions(KeyDM) :
          fs \in {MkFs(KeyDM, part)} \cup (IF part = <<>> THEN {EmptyFs} ELSE {})

NextRead ==
    \/ \E key \in Keys, t \in Cutoffs, limit \in Limits : GrsCall(key, t, limit)
    \/ GrsOpen
    \/ GrsRead

SpecRead == InitRead /\ [][NextRead]_vars

(***************************************************************************)
(* The records stored for a key: those of the parseable segment files of   *)
(* its partition.                                                          *)
(***************************************************************************)
\* how many elements of list satisfy P
CountIn(list, P(_)) == Cardinality({i \in DOMAIN list : P(list[i])})

StoredCount(f, key, P(_)) == CountIn(StoredRecords(f, key), P)

Qualifies(r, t) == r.timestamp # NoTs /\ r.timestamp > t

Min(a, b) == IF a < b THEN a ELSE b

WatermarkCaches ==
    LET g == MkInfo(KeyGroup, "u", 1) IN
    {<<>>, <<g>>}
    \cup UNION {{<<MkInfo(KeyDM, "u", t)>>,
                 <<g, MkInfo(KeyDM, "u", t)>>,
                 <<MkInfo(KeyDM, "u", t), g>>} : t \in Timestamps}

InitDelta ==
    /\ DefaultConfig
    /\ InitQuiet
    /\ last_uploaded_info \in WatermarkCaches
    /\ \E part \in SmallPartitions(KeyDM) : fs = MkFs(KeyDM, part)

NextDelta ==
    \/ \E key \in {KeyDM, KeyGroup}, limit \in 0..(MaxTotal - 1) : GetDelta(key, limit)
    \/ GrsOpen
    \/ GrsRead

SpecDelta == InitDelta /\ [][NextDelta]_vars

\* C3: a step of an export-delta computation (get_last_upload_info, then the
\* steps of get_records_since) changes neither records nor last_uploaded_info
\* (contents and order) nor any file, and the second of two computations for
\* the same key and limit returns the batch the first returned.
C3_DeltaReadOnly ==
    [][ /\ records' = records
        /\ last_uploaded_info' = last_uploaded_info
        /\ fs' = fs
        /\ (hist.delta.n = 1 /\ hist'.delta.n = 2) => hist'.delta.batch = hist.delta.batch
      ]_vars

\* C3 witness: two delta computations for a key with a watermark have finished
\* and returned a non-empty batch that leaves a stored record out
C3_Witness ==
    /\ hist.delta.n = 2
    /\ grs.pc = "done"
    /\ HasInfo(last_uploaded_info, hist.delta.key)
    /\ last_uploaded_info[1].key = hist.delta.key
    /\ Len(last_uploaded_info) = 2
    /\ hist.delta.batch # <<>>
    /\ Len(StoredRecords(fs, hist.delta.key)) > Len(hist.delta.batch)

(***************************************************************************)
(* SpecCache: the watermark cache under any sequence of                    *)
(* get_last_upload_info and update_last_upload_info calls.                 *)
(***************************************************************************)
Urls == {"u", "v"}

InitCache ==
    /\ enable_persistence \in BOOLEAN
    /\ upload_cache_size \in 0..MaxCacheSize
    /\ log_rotation_count = DefaultRotationCount
    /\ InitQuiet
    /\ last_uploaded_info = <<>>
    /\ fs = EmptyFs

NextCache ==
    \/ \E key \in Keys : GetInfo(key)
    \/ \E key \in Keys, url \in Urls, ts \in Timestamps : UpdateLastUploadInfo(key, url, ts)

SpecCache == InitCache /\ [][NextCache]_vars

\* C4: whenever a key leaves the watermark cache it is the least recently used
\* one, a use being a get_last_upload_info hit or an update_last_upload_info
\* (so at most one key leaves per call).
C4_EvictsLeastRecentlyUsed ==
    [][ \A key \in Keys :
          (HasInfo(last_uploaded_info, key) /\ ~HasInfo(last_uploaded_info', key))
             => (hist.recency # <<>> /\ key = Head(hist.recency))
      ]_vars

\* C6: the breakpoint_timestamp stored for a key never decreases.
C6_WatermarkMonotonic ==
    [][ \A key \in Keys :
          (HasInfo(last_uploaded_info, key) /\ HasInfo(last_uploaded_info', key))
             => InfoOf(last_uploaded_info', key).breakpoint_timestamp
                   >= InfoOf(last_uploaded_info, key).breakpoint_timestamp
      ]_vars

(***************************************************************************)
(* SpecFlush: one key's watermark updates interleaved with every save      *)
(* (the key's debounce task, the periodic task, the save of terminate),    *)
(* one step per await, and with restarts of the process.                   *)
(***************************************************************************)
InitFlush ==
    /\ enable_persistence = TRUE
    /\ upload_cache_size \in 1..MaxCacheSize
    /\ log_rotation_count = DefaultRotationCount
    /\ records = [k \in Keys |-> NoRecord]
    /\ save_tasks = [id \in TaskIds |-> IF id = Periodic THEN Sleeping ELSE NoTask]
    /\ log_tasks = <<>>
    /\ grs = GrsIdle
    /\ alive = TRUE
    /\ hist = HistInit
    /\ last_uploaded_info = <<>>
    /\ fs = EmptyFs
    /\ r1 = R1Unused
    /\ timers = NoTimers

NextFlush ==
    \/ \E ts \in Timestamps : UpdateLastUploadInfo(KeyDM, "u", ts)
    \/ \E id \in TaskIds : TimerFires(id)
    \/ \E id \in TaskIds : SaveOpen(id)
    \/ \E id \in TaskIds : SaveWrite(id)
    \/ \E id \in TaskIds : SaveClose(id)
    \/ \E id \in TaskIds : SaveReplace(id)
    \/ TerminateCall
    \/ \E size \in 1..MaxCacheSize : Restart(size)

SpecFlush == InitFlush /\ [][NextFlush]_vars

(***************************************************************************)
(* SpecRestart: watermark updates of two keys, the saves of the periodic   *)
(* task (the debounce tasks are armed and still asleep when the process    *)
(* ends), and restarts under another upload_cache_size.                    *)
(***************************************************************************)
NextRestart ==
    \/ \E key \in {KeyDM, KeyGroup} : UpdateLastUploadInfo(key, "u", 1)
    \/ TimerFires(Periodic)
    \/ SaveOpen(Periodic)
    \/ SaveWrite(Periodic)
    \/ SaveClose(Periodic)
    \/ SaveReplace(Periodic)
    \/ \E size \in 1..MaxCacheSize : Restart(size)

SpecRestart == InitFlush /\ [][NextRestart]_vars

\* C5: last_uploaded_info never holds more than upload_cache_size entries, and
\* with upload_cache_size >= 1 the key update_last_upload_info has just written
\* is in the cache when the call returns.
C5_CacheBound ==
    /\ [](Len(last_uploaded_info) <= upload_cache_size)
    /\ [][ \A key \in Keys :
             (save_tasks'[key] = Sleeping /\ save_tasks[key] # Sleeping
                /\ upload_cache_size >= 1)
                => HasInfo(last_uploaded_info', key)
         ]_vars

\* C7: every file at its final path (cache.json, a segment file) holds a
\* complete serialization at every moment: never an empty, truncated or
\* partially written one.
C7_FinalFilesComplete ==
    \A p \in DOMAIN fs.names : p.ext = "json" => fs.data[fs.names[p]].kind = "ok"

\* C9: at most one save is between opening the temp snapshot file and
\* completing the rename.
C9_OneSaveAtATime ==
    Cardinality({id \in TaskIds : save_tasks[id].pc \in {"write", "close", "replace"}}) <= 1

\* C10: once the save of terminate() has completed, cache.json holds exactly
\* records and last_uploaded_info as they were when terminate() was called.
C10_FinalSnapshot ==
    (~alive /\ enable_persistence /\ save_tasks[Terminate].pc = "done") =>
        /\ CachePath \in DOMAIN fs.names
        /\ fs.data[fs.names[CachePath]] = Ok(<<hist.at_terminate>>)

(***************************************************************************)
(* SpecLog: log_thought calls for one key running as concurrent tasks,     *)
(* with persistence enabled or not, over an empty storage_dir.             *)
(***************************************************************************)
InitLog ==
    /\ enable_persistence \in BOOLEAN
    /\ upload_cache_size = MaxCacheSize
    /\ log_rotation_count = DefaultRotationCount
    /\ InitQuiet
    /\ last_uploaded_info = <<>>
    /\ fs = EmptyFs

NextLog ==
    \/ LogCall(KeyDM)
    \/ \E i \in 1..MaxCalls : LogStart(i)
    \/ \E i \in 1..MaxCalls : LogReadOpen(i)
    \/ \E i \in 1..MaxCalls : LogRead(i)
    \/ \E i \in 1..MaxCalls : LogOpen(i)
    \/ \E i \in 1..MaxCalls : LogWrite(i)
    \/ \E i \in 1..MaxCalls : LogClose(i)
    \/ \E i \in 1..MaxCalls : LogReplace(i)

SpecLog == InitLog /\ [][NextLog]_vars

\* every log_thought call made so far has returned
AllLogged == log_tasks # <<>> /\ \A i \in DOMAIN log_tasks : log_tasks[i].pc = "done"

\* C1: once the log_thought calls made for a key have all returned,
\* get_last_thought(key) is the record of the last of them.
C1_LatestWins ==
    AllLogged => records[KeyDM] = log_tasks[Len(log_tasks)].record

\* C8: once concurrent log_thought calls for one key have all returned and
\* every rename succeeded, each of their records is in the key's partition
\* exactly once, and records of one segment file are in invocation order.
C8_NoLostAppend ==
    (AllLogged /\ \A i \in DOMAIN log_tasks : log_tasks[i].ok) =>
        /\ \A i \in DOMAIN log_tasks :
             StoredCount(fs, KeyDM, LAMBDA r : r = log_tasks[i].record) = 1
        /\ \A p \in Glob(fs, SessionDir(KeyDM)) :
             LET content == fs.data[fs.names[p]] IN
             content.kind = "ok" =>
                \A m, n \in DOMAIN content.val :
                    m < n => content.val[m].timestamp < content.val[n].timestamp

(***************************************************************************)
(* SpecCommit: records are ingested for two keys (log_thought, one step    *)
(* per await, each call awaited before the next is made), watermarks are   *)
(* committed for both, and one get_records_since call reads the partition  *)
(* of KeyDM.                                                               *)
(***************************************************************************)
\* no log_thought call is running
NoneLogging == \A i \in DOMAIN log_tasks : log_tasks[i].pc = "done"

InitCommit ==
    /\ enable_persistence = TRUE
    /\ upload_cache_size \in {1, MaxCacheSize}
    /\ log_rotation_count = DefaultRotationCount
    /\ InitQuiet
    /\ last_uploaded_info = <<>>
    /\ fs = EmptyFs

NextCommit ==
    \/ \E key \in {KeyDM, KeyGroup} :
          NoneLogging /\ Len(log_tasks) < MaxIngested /\ LogCall(key)
    \/ \E i \in 1..MaxCalls : LogStart(i)
    \/ \E i \in 1..MaxCalls : LogReadOpen(i)
    \/ \E i \in 1..MaxCalls : LogRead(i)
    \/ \E i \in 1..MaxCalls : LogOpen(i)
    \/ \E i \in 1..MaxCalls : LogWrite(i)
    \/ \E i \in 1..MaxCalls : LogClose(i)
    \/ \E i \in 1..MaxCalls : LogReplace(i)
    \/ \E ts \in 1..MaxIngested : UpdateLastUploadInfo(KeyDM, "u", ts)
    \/ UpdateLastUploadInfo(KeyGroup, "v", 1)
    \/ \E ts \in 1..MaxIngested : GrsCall(KeyDM, ts, MaxTotal)
    \/ GrsOpen
    \/ GrsRead

SpecCommit == InitCommit /\ [][NextCommit]_vars

\* the batch of a get_records_since(K, t2, limit) made after the commit of t2
\* for K is empty
EmptyBatchAfterCommit ==
    (hist.commit.on /\ hist.commit.asked /\ grs.pc = "done") => grs.result = <<>>

\* the watermark of K is the committed one
CommittedEntry ==
    InfoOf(last_uploaded_info, hist.commit.key)
        = MkInfo(hist.commit.key, hist.commit.url, hist.commit.ts)

LastStarted(i) ==
    /\ log_tasks[i].pc # "start"
    /\ \A j \in DOMAIN log_tasks :
          (j > i /\ log_tasks[j].record.user_key = log_tasks[i].record.user_key)
             => log_tasks[j].pc = "start"

\* C12: in every configuration, and whatever becomes of the directory creation
\* and of the segment write, get_last_thought(key) returns the record of the
\* last log_thought call that ran for the key.
C12_UpsertAlways ==
    \A i \in DOMAIN log_tasks :
        LastStarted(i) => records[log_tasks[i].record.user_key] = log_tasks[i].record

\* C14: a log_thought call that returns without having persisted its record
\* (directory not created, write or rename failed) gives its caller an
\* outcome other than the None a successful append returns.
C14_FailureSurfaced ==
    \A i \in DOMAIN log_tasks :
        (enable_persistence /\ log_tasks[i].pc = "done" /\ ~log_tasks[i].ok)
            => log_tasks[i].ret # "None"

(***************************************************************************)
(* SpecCorrupt: get_records_since over a partition with damaged units: a   *)
(* segment file json.loads rejects, one that parses to something that is   *)
(* not a list, a record with a timestamp that is not an ISO date.          *)
(***************************************************************************)
DamagedRecordsOfKey(key) == RecordsOfKey(key) \cup {MkRecord(key, BadTs, "r")}

DamagedFileChoices(key, n) ==
    {CorruptFile, NotAList}
        \cup {Ok(l) : l \in UNION {[1..m -> DamagedRecordsOfKey(key)] : m \in 0..n}}

RECURSIVE DamagedPartitionsOf(_, _, _)
DamagedPartitionsOf(key, nfiles, total) ==
    IF nfiles = 0 THEN {<<>>}
    ELSE UNION {{<<c>> \o rest :
                    rest \in DamagedPartitionsOf(key, nfiles - 1, total - Len(c.val))}
                : c \in DamagedFileChoices(key, total)}

InitCorrupt ==
    /\ DefaultConfig
    /\ InitQuiet
    /\ last_uploaded_info = <<>>
    /\ \E n \in 1..MaxFiles :
          \E part \in DamagedPartitionsOf(KeyDM, n, MaxTotal - 1) : fs = MkFs(KeyDM, part)

NextCorrupt ==
    \/ \E t \in Cutoffs, limit \in Limits : GrsCall(KeyDM, t, limit)
    \/ GrsOpen
    \/ GrsRead

SpecCorrupt == InitCorrupt /\ [][NextCorrupt]_vars

\* C13: get_records_since never ends with an exception: it skips a segment
\* file that is unparseable or not a list and a record whose timestamp is
\* unparseable, and returns the first `limit` qualifying records of the rest.
C13_CorruptSkipped ==
    /\ grs.pc # "raised"
    /\ grs.pc = "done" =>
          Len(grs.result)
             = Min(grs.limit,
                   StoredCount(fs, grs.key,
                               LAMBDA r : r.timestamp # BadTs
                                             /\ Qualifies(r, grs.last_timestamp)))

(***************************************************************************)
(* SpecExport: memohina_command of R1Filter over two keys, with resp and   *)
(* its tasks changing the files in between.  The initial states draw the   *)
(* size of the upload cache, the r2.* settings that are empty and whether  *)
(* each key already has a log file.                                        *)
(***************************************************************************)
ExportKeys == {KeyDM, KeyGroup}

\* nothing runs in PersistenceManager
PmUnused ==
    /\ PmQuiet
    /\ last_uploaded_info = <<>>
    /\ fs = EmptyFs

InitExport ==
    /\ enable_persistence = TRUE
    /\ upload_cache_size \in {1, MaxCacheSize}
    /\ log_rotation_count = DefaultRotationCount
    /\ PmUnused
    /\ \E empty \in {{}, {"r2_secret_access_key"}, Credentials} :
       \E old \in {{KeyGroup}, ExportKeys} :
            r1 = R1New(TRUE, EmptyFile,
                       [k \in Keys |-> IF k \in old
                                       THEN <<Ok(<<MkRecord(k, NoTs, "old")>>)>>
                                       ELSE <<>>],
                       empty)

NextExport ==
    \/ R1Load
    \/ Resp(KeyDM, "x")
    \/ TaskRun
    \/ \E key \in ExportKeys : MemoCall(key)
    \/ \E key \in ExportKeys : MemoResume(key)
    \/ \E key \in ExportKeys : UploadDone(key)

SpecExport == InitExport /\ [][NextExport]_vars

\* the last thing memohina_command told the user of `key`
LastReply(r, key) == r.memo[key].replies[Len(r.memo[key].replies)]

\* C15: the entry of a key in last_uploaded_info is created or changed only in
\* the step in which upload_file_to_r2 returns the URL of that key's export,
\* and becomes that export's hash and URL; in the step in which the upload
\* raises, last_uploaded_info keeps its content and its order and the user is
\* sent the failure message.
C15_CommitAfterUpload ==
    [][\A key \in ExportKeys :
        LET before == r1.last_uploaded_info
            after == r1'.last_uploaded_info
            returns == r1.memo[key].pc = "upload" /\ r1'.memo[key].pc = "done"
        IN  /\ (/\ HasInfo(after, key)
                /\ ~HasInfo(before, key) \/ UploadOf(after, key) # UploadOf(before, key))
               => /\ returns
                  /\ r1'.memo[key].raised = "none"
                  /\ UploadOf(after, key) =
                        MkUpload(key, r1.memo[key].hash, r1.memo[key].url)
            /\ (returns /\ r1'.memo[key].raised # "none")
               => /\ after = before
                  /\ LastReply(r1', key) = Reply("failed", r1'.memo[key].raised)]_vars

\* C15 witness: an upload was attempted and raised while the cache held the
\* entry of an earlier export
C15_Witness ==
    \E key \in ExportKeys :
        /\ r1.memo[key].pc = "done"
        /\ r1.memo[key].attempted
        /\ r1.memo[key].raised # "none"
        /\ r1.last_uploaded_info # <<>>

\* C16: with an r2.* setting empty, an export that fails has not called
\* s3_client.upload_file and reports something else than the R2UploadError of
\* a network failure.
C16_MissingCredentialFailsFast ==
    \A key \in ExportKeys :
        (/\ r1.r2_empty # {}
         /\ r1.memo[key].pc = "done"
         /\ r1.memo[key].raised # "none")
        => /\ ~r1.memo[key].attempted
           /\ r1.memo[key].raised # "R2UploadError"

(***************************************************************************)
(* SpecKeys: log_thought and get_records_since with keys that are not of   *)
(* the form ID/group or ID/dm, each log_thought call awaited before the    *)
(* next and get_records_since called after them.  The initial states draw  *)
(* whether an earlier save left cache.json in storage_dir.                 *)
(***************************************************************************)
MalformedKeys == {KeyBare, KeyOther, KeyDeep, KeyDotDot}

\* storage_dir holding the cache.json of an instance that had nothing in memory
FsWithCache ==
    [names |-> (CachePath :> 1),
     data  |-> <<Ok(<<SnapshotOf([k \in Keys |-> NoRecord], <<>>)>>)>>,
     mtime |-> <<1>>,
     dirs  |-> {}]

InitKeys ==
    /\ DefaultConfig
    /\ InitQuiet
    /\ last_uploaded_info = <<>>
    /\ fs \in {EmptyFs, FsWithCache}

NextKeys ==
    \/ \E key \in MalformedKeys :
            /\ NoneLogging /\ grs.pc = "idle"
            /\ Len(log_tasks) < MaxIngested
            /\ LogCall(key)
    \/ \E i \in 1..MaxCalls : LogStart(i)
    \/ \E i \in 1..MaxCalls : LogReadOpen(i)
    \/ \E i \in 1..MaxCalls : LogRead(i)
    \/ \E i \in 1..MaxCalls : LogOpen(i)
    \/ \E i \in 1..MaxCalls : LogWrite(i)
    \/ \E i \in 1..MaxCalls : LogClose(i)
    \/ \E i \in 1..MaxCalls : LogReplace(i)
    \/ \E key \in MalformedKeys : NoneLogging /\ GrsCall(key, NoTs, MaxTotal)
    \/ GrsOpen
    \/ GrsRead

SpecKeys == InitKeys /\ [][NextKeys]_vars

\* the log_thought calls that met no I/O error
Unfailed == {i \in DOMAIN log_tasks : log_tasks[i].pc = "done" /\ ~log_tasks[i].failed}

\* whether record is among list
Holds(list, record) == \E n \in DOMAIN list : list[n] = record

\* C17: a log_thought call with a malformed key that met no I/O error returns
\* having stored its record, user_key included, in the partition of the key,
\* and get_records_since then called with that key, no cutoff and a limit
\* above the number of records returns a batch holding the record.
C17_MalformedKeysPersist ==
    \A i \in Unfailed :
        LET record == log_tasks[i].record IN
        /\ log_tasks[i].ret = "None"
        /\ Holds(StoredRecords(fs, record.user_key), record)
        /\ (grs.key = record.user_key /\ grs.pc \in {"done", "raised"})
           => grs.pc = "done" /\ Holds(grs.result, record)

IngestKeys == {KeyDM, KeyGroup}

OldCache == Ok([k \in Keys |-> IF k = KeyDM THEN MkRecord(k, NoTs, "old") ELSE NoRecord])

InitIngest ==
    /\ enable_persistence \in BOOLEAN
    /\ upload_cache_size = MaxCacheSize
    /\ log_rotation_count \in {1, DefaultRotationCount}
    /\ PmUnused
    /\ \E cache_file \in {EmptyFile, OldCache} :
            r1 = R1New(enable_persistence, cache_file, NoLogs, {})

NextIngest ==
    \/ R1Load
    \/ \E key \in IngestKeys, reasoning_content \in {"", "x"} : Resp(key, reasoning_content)
    \/ TaskRun
    \/ \E key \in IngestKeys : Think(key)

SpecIngest == InitIngest /\ [][NextIngest]_vars

\* C19: the step of resp stores the record in records[K] and leaves the save
\* and the log append it scheduled pending, with no file written; the step of
\* a scheduled task, failed or not, leaves records as it was; records[K] stays
\* the last record resp built for K, and think_command for K answers with it.
C19_IngestNotWaiting ==
    /\ [](\A key \in IngestKeys :
            r1.ingested[key] # NoRecord => r1.records[key] = r1.ingested[key])
    /\ [][/\ r1'.clock # r1.clock
             => \E key \in IngestKeys :
                    /\ r1'.records[key] = r1'.ingested[key]
                    /\ r1'.tasks = r1.tasks \o <<R1Task("save", r1'.ingested[key]),
                                                 R1Task("log", r1'.ingested[key])>>
                    /\ r1'.cache_file = r1.cache_file
                    /\ r1'.logs = r1.logs
          /\ r1'.finished # r1.finished => r1'.records = r1.records
          /\ \A key \in IngestKeys :
                (r1'.think[key] # r1.think[key] /\ r1.ingested[key] # NoRecord)
                => r1'.think[key] = Reply("reasoning", r1.ingested[key])]_vars

\* C19 witness: think_command answered with the record of a key whose save or
\* log append had just failed, while another task was still pending
C19_Witness ==
    /\ enable_persistence
    /\ r1.finished.kind # "none"
    /\ ~r1.finished.ok
    /\ r1.tasks # <<>>
    /\ \E key \in IngestKeys :
        /\ r1.finished.record.user_key = key
        /\ r1.think[key] = Reply("reasoning", r1.ingested[key])

(***************************************************************************)
(* SpecDebounce: the debounce tasks of two keys under the passage of time, *)
(* persistence enabled.  The mutating calls are update_last_upload_info    *)
(* for one key and log_thought for the other; the sleep of a debounce task *)
(* returns once its window has passed, and the save it starts runs to its  *)
(* end unless a mutating call cancels it.                                  *)
(***************************************************************************)
DebounceKeys == {KeyDM, KeyGroup}

\* log_thought calls in SpecDebounce
MaxLogged == 1

\* time passes
Tick ==
    /\ timers' = Elapsed(timers)
    /\ timers' # timers
    /\ UNCHANGED <<config, memory, save_tasks, log_tasks, fs, grs, alive, hist, r1>>

\* line 83: asyncio.sleep(user_inactivity_timeout_seconds) of the task
\* user_save_tasks[key] returns
DebounceFires(key) ==
    /\ timers.left[key] # <<>>
    /\ timers.left[key][Len(timers.left[key])] = 0
    /\ TimerFires(key)

InitDebounce ==
    /\ DefaultConfig
    /\ InitQuiet
    /\ last_uploaded_info = <<>>
    /\ fs \in {EmptyFs, MkFs(KeyGroup, <<Ok(<<>>)>>)}

NextDebounce ==
    \/ Tick
    \/ UpdateLastUploadInfo(KeyDM, "u", 1)
    \/ Len(log_tasks) < MaxLogged /\ NoneLogging /\ LogCall(KeyGroup)
    \/ \E i \in 1..MaxCalls : LogStart(i)
    \/ \E i \in 1..MaxCalls : LogReadOpen(i)
    \/ \E i \in 1..MaxCalls : LogRead(i)
    \/ \E i \in 1..MaxCalls : LogOpen(i)
    \/ \E i \in 1..MaxCalls : LogWrite(i)
    \/ \E i \in 1..MaxCalls : LogClose(i)
    \/ \E i \in 1..MaxCalls : LogReplace(i)
    \/ \E key \in DebounceKeys : DebounceFires(key)
    \/ \E key \in DebounceKeys : SaveOpen(key)
    \/ \E key \in DebounceKeys : SaveWrite(key)
    \/ \E key \in DebounceKeys : SaveClose(key)
    \/ \E key \in DebounceKeys : SaveReplace(key)

SpecDebounce == InitDebounce /\ [][NextDebounce]_vars

SweepTasks == {Periodic, Terminate}

\* a step of the periodic task
PeriodicStep ==
    \/ TimerFires(Periodic)
    \/ SaveOpen(Periodic)
    \/ SaveWrite(Periodic)
    \/ SaveClose(Periodic)
    \/ SaveReplace(Periodic)

NextSweep ==
    \/ UpdateLastUploadInfo(KeyDM, "u", 1)
    \/ Len(log_tasks) < MaxLogged /\ NoneLogging /\ LogCall(KeyDM)
    \/ \E i \in 1..MaxCalls : LogStart(i)
    \/ \E i \in 1..MaxCalls : LogReadOpen(i)
    \/ \E i \in 1..MaxCalls : LogRead(i)
    \/ \E i \in 1..MaxCalls : LogOpen(i)
    \/ \E i \in 1..MaxCalls : LogWrite(i)
    \/ \E i \in 1..MaxCalls : LogClose(i)
    \/ \E i \in 1..MaxCalls : LogReplace(i)
    \/ \E id \in SweepTasks : TimerFires(id)
    \/ \E id \in SweepTasks : SaveOpen(id)
    \/ \E id \in SweepTasks : SaveWrite(id)
    \/ \E id \in SweepTasks : SaveClose(id)
    \/ \E id \in SweepTasks : SaveReplace(id)
    \/ TerminateCall

InitSweep ==
    /\ DefaultConfig
    /\ records = [k \in Keys |-> NoRecord]
    /\ last_uploaded_info = <<>>
    /\ save_tasks = [id \in TaskIds |-> IF id = Periodic THEN Sleeping ELSE NoTask]
    /\ log_tasks = <<>>
    /\ grs = GrsIdle
    /\ alive = TRUE
    /\ hist = HistInit
    /\ fs = MkFs(KeyDM, <<Ok(<<>>)>>)
    /\ timers = NoTimers
    /\ r1 = R1Unused

SpecSweep == InitSweep /\ [][NextSweep]_vars

SpecSweepFair == SpecSweep /\ WF_vars(PeriodicStep)

\* the periodic task has begun a snapshot (lines 63-68)
SweepBegun == save_tasks[Periodic].pc = "open"

C22_NoneScheduledAfterTerminate ==
    ~alive => \A id \in Keys \cup {Periodic} :
                  save_tasks[id].pc \in {"none", "done", "cancelled"}

(***************************************************************************)
(* SpecRotate: log_thought calls for one key, one step per await, over a   *)
(* partition that holds up to MaxFiles segment files already, under a      *)
(* small log_rotation_count, where the rotation of lines 155-161 runs, and *)
(* under the default one.                                                  *)
(***************************************************************************)
RotationCounts == {1, 2, DefaultRotationCount}

\* a segment file json.loads rejects, an empty list, a list of one record
RotateFiles == {CorruptFile, Ok(<<>>), Ok(<<MkRecord(KeyDM, NoTs, "old")>>)}

RotatePartitions == UNION {[1..n -> RotateFiles] : n \in 0..MaxFiles}

InitRotate ==
    /\ enable_persistence = TRUE
    /\ upload_cache_size = MaxCacheSize
    /\ log_rotation_count \in RotationCounts
    /\ InitQuiet
    /\ last_uploaded_info = <<>>
    /\ \E part \in RotatePartitions : fs = MkFs(KeyDM, part)

NextRotate ==
    \/ LogCall(KeyDM)
    \/ \E i \in 1..MaxCalls : LogStart(i)
    \/ \E i \in 1..MaxCalls : LogReadOpen(i)
    \/ \E i \in 1..MaxCalls : LogRead(i)
    \/ \E i \in 1..MaxCalls : LogOpen(i)
    \/ \E i \in 1..MaxCalls : LogWrite(i)
    \/ \E i \in 1..MaxCalls : LogClose(i)
    \/ \E i \in 1..MaxCalls : LogReplace(i)

SpecRotate == InitRotate /\ [][NextRotate]_vars

\* the segment files of the key's partition
Segments(f, key) == Glob(f, SessionDir(key))

\* C23: when a log_thought call returns, the key's partition holds at most
\* log_rotation_count segment files, and every segment file the call removed
\* was modified before every earlier segment file it kept.
C23_Retention ==
    [][ \A i \in DOMAIN log_tasks :
          (log_tasks[i].pc # "done" /\ log_tasks'[i].pc = "done") =>
              LET before == Segments(fs, KeyDM)
                  after == Segments(fs', KeyDM)
              IN  /\ Cardinality(after) <= log_rotation_count
                  /\ \A gone \in before \ after : \A kept \in before \cap after :
                        Mtime(fs, gone) < Mtime(fs, kept)
      ]_vars

\* C29: when a log_thought call returns after its rename succeeded, no other
\* call being under way, its record is in a segment file of the key's
\* partition, and
\* get_records_since(key, no watermark, a limit as large as the partition)
\* returns it.
C29_WrittenSurvivesRotation ==
    [][ \A i \in DOMAIN log_tasks :
          (/\ log_tasks[i].pc # "done" /\ log_tasks'[i].pc = "done"
           /\ log_tasks'[i].ok
           /\ \A j \in DOMAIN log_tasks : j # i => log_tasks[j].pc = "done") =>
              LET stored == StoredRecords(fs', KeyDM)
                  batch == SelectSince(stored, NoTs, Len(stored))
              IN  /\ \E n \in DOMAIN stored : stored[n] = log_tasks[i].record
                  /\ \E n \in DOMAIN batch : batch[n] = log_tasks[i].record
      ]_vars

(***************************************************************************)
(* SpecSegments: R1Filter._log_thought over a session directory that holds *)
(* up to MaxFiles segment files already, under a log_rotation_count small  *)
(* enough for segments to fill; records are ingested for two keys.         *)
(***************************************************************************)
SegmentCounts == {0, 1, 2}

\* an earlier segment file: unparseable, JSON that is no list, a list
SegmentFiles == {CorruptFile, NotAList, Ok(<<>>), Ok(<<MkRecord(KeyDM, NoTs, "old")>>)}

\* the segment files of a session directory, by index; _log_thought reads
\* the highest one only (line 128), so the lower ones are all alike here
SegmentLists ==
    {<<>>} \cup
    {[i \in 1..n |-> IF i = n THEN last ELSE Ok(<<MkRecord(KeyDM, NoTs, "old")>>)] :
        n \in 1..MaxFiles, last \in SegmentFiles}

InitSegments ==
    /\ enable_persistence = TRUE
    /\ upload_cache_size = MaxCacheSize
    /\ log_rotation_count \in SegmentCounts
    /\ PmUnused
    /\ \E segments \in SegmentLists :
          r1 = R1New(TRUE, EmptyFile, [NoLogs EXCEPT ![KeyDM] = segments], {})

NextSegments ==
    \/ R1Load
    \/ \E key \in IngestKeys : Resp(key, "x")
    \/ TaskRun

SpecSegments == InitSegments /\ [][NextSegments]_vars

\* the step is the end of a _log_thought task for key that wrote its file
LogWritten(key) ==
    /\ r1.tasks # <<>>
    /\ Head(r1.tasks).kind = "log"
    /\ Head(r1.tasks).record.user_key = key
    /\ r1'.finished = Finished(Head(r1.tasks), TRUE)

ListOf(content) == IF content.kind = "ok" THEN content.val ELSE <<>>

\* the records of the segments read in index order
RECURSIVE ReadInOrder(_)
ReadInOrder(segments) ==
    IF segments = <<>> THEN <<>>
    ELSE ReadInOrder(SubSeq(segments, 1, Len(segments) - 1))
            \o ListOf(segments[Len(segments)])

\* the records resp has built, among those the segments of the key hold
Appended(segments) == SelectSeq(ReadInOrder(segments), LAMBDA r : r.timestamp # NoTs)

GetLastThought(recs, key) == recs[key]

InitCrash ==
    /\ InitFlush
    /\ upload_cache_size = MaxCacheSize

\* the calls of the model end once the partition holds more than MaxLogged
\* records, and with the MaxCalls-th file name taken
MayLog ==
    /\ NoneLogging
    /\ Len(StoredRecords(fs, KeyDM)) <= MaxLogged
    /\ \A p \in DOMAIN fs.names : p.name < MaxCalls

NextCrash ==
    \/ MayLog /\ LogCall(KeyDM)
    \/ \E i \in 1..MaxCalls : LogStart(i)
    \/ \E i \in 1..MaxCalls : LogReadOpen(i)
    \/ \E i \in 1..MaxCalls : LogRead(i)
    \/ \E i \in 1..MaxCalls : LogOpen(i)
    \/ \E i \in 1..MaxCalls : LogWrite(i)
    \/ \E i \in 1..MaxCalls : LogClose(i)
    \/ \E i \in 1..MaxCalls : LogReplace(i)
    \/ Restart(MaxCacheSize)

SpecCrash == InitCrash /\ [][NextCrash]_vars

\* C26: when records has no entry for a key whose partition holds records,
\* get_last_thought(key) returns the newest record of the partition.
C26_ReadThroughOnMiss ==
    LET stored == StoredRecords(fs, KeyDM) IN
    (records[KeyDM] = NoRecord /\ stored # <<>>) =>
        \E n \in DOMAIN stored :
            /\ GetLastThought(records, KeyDM) = stored[n]
            /\ \A m \in DOMAIN stored : stored[m].timestamp <= stored[n].timestamp

\* the step starts an upload for key (line 473), or ends its memohina_command
\* with the cached URL (lines 452-459)
MemoDecides(key) ==
    /\ r1.memo[key].pc \in {"idle", "done", "unreadable"}
    /\ r1.logs[key] # <<>>
    /\ r1'.memo[key].pc \in {"upload", "done"}
    /\ r1'.memo[key] # r1.memo[key]

\* C27: memohina_command for a key with a segment file starts an upload
\* exactly when last_uploaded_info has no entry for the key or the entry's
\* hash is not the SHA-256 of the key's newest segment file; otherwise it
\* answers with the cached URL and leaves last_uploaded_info as it was but for
\* the key moved to the end.
C27_UnchangedNotUploaded ==
    [][ \A key \in ExportKeys :
          MemoDecides(key) =>
              LET cache == r1.last_uploaded_info
                  newest == r1.logs[key][Len(r1.logs[key])]
                  same == CacheHit(cache, key, FileHash(newest))
              IN  IF same
                  THEN /\ r1'.memo[key].pc = "done"
                       /\ LastReply(r1', key) = Reply("unchanged", UploadOf(cache, key).url)
                       /\ r1'.last_uploaded_info = MoveKeyToEnd(cache, key)
                  ELSE /\ r1'.memo[key].pc = "upload"
                       /\ r1'.last_uploaded_info = cache
      ]_vars

(***************************************************************************)
(* SpecCycle: the incremental export of one key.  A cycle reads the delta  *)
(* (get_last_upload_info, then get_records_since from the watermark),      *)
(* commits the timestamp of the last record of a non-empty batch with      *)
(* update_last_upload_info, and takes the next delta; log_thought appends  *)
(* between the cycles.  The partition starts as one segment file of        *)
(* records that all bear the first timestamp, which is also that of the    *)
(* first record appended: timestamps never decrease, and may be equal.     *)
(***************************************************************************)
\* the segment files with up to MaxTotal - 1 records of the first timestamp
CycleFiles ==
    {Ok([i \in 1..n |-> MkRecord(KeyDM, 1, ToString(i))]) : n \in 0..(MaxTotal - 1)}

InitCycle ==
    /\ DefaultConfig
    /\ InitQuiet
    /\ last_uploaded_info = <<>>
    /\ \E file \in CycleFiles : fs = MkFs(KeyDM, <<file>>)

\* the caller of get_records_since has the batch (line 242) and, when it is
\* not empty, commits the timestamp of its last record
CycleCommit(key) ==
    /\ grs.pc = "done"
    /\ grs.key = key
    /\ grs.result # <<>>
    /\ hist.delta.n = 1
    /\ UpdateLastUploadInfo(key, "u", grs.result[Len(grs.result)].timestamp)

\* the next cycle may begin: the batch of the last one is committed
CycleNext(key) ==
    /\ grs.pc = "done"
    /\ grs.key = key
    /\ grs.result # <<>>
    /\ hist.delta.n = 0
    /\ grs' = GrsIdle
    /\ UNCHANGED <<config, memory, save_tasks, log_tasks, fs, alive, hist, r1, timers>>

NextCycle ==
    \/ \E limit \in 1..MaxTotal : NoneLogging /\ hist.delta.n = 0 /\ GetDelta(KeyDM, limit)
    \/ GrsOpen
    \/ GrsRead
    \/ CycleCommit(KeyDM)
    \/ CycleNext(KeyDM)
    \/ Len(log_tasks) < MaxLogged /\ grs.pc = "idle" /\ LogCall(KeyDM)
    \/ \E i \in 1..MaxCalls : LogStart(i)
    \/ \E i \in 1..MaxCalls : LogReadOpen(i)
    \/ \E i \in 1..MaxCalls : LogRead(i)
    \/ \E i \in 1..MaxCalls : LogOpen(i)
    \/ \E i \in 1..MaxCalls : LogWrite(i)
    \/ \E i \in 1..MaxCalls : LogClose(i)
    \/ \E i \in 1..MaxCalls : LogReplace(i)

SpecCycle == InitCycle /\ [][NextCycle]_vars

\* C28: a cycle leaves no record behind: when the watermark of the key is
\* moved from t to the timestamp u of the last record of the batch, every
\* stored record of the key with a timestamp after t and not after u is in
\* the batch; so the records up to the watermark have each been in a batch,
\* and the next batch starts after them.
C28_CycleComplete ==
    [][ (/\ grs.pc = "done"
         /\ grs.key = KeyDM
         /\ grs.result # <<>>
         /\ InfoOf(last_uploaded_info', KeyDM) # InfoOf(last_uploaded_info, KeyDM)) =>
            LET stored == StoredRecords(fs, KeyDM)
                t == grs.last_timestamp
                u == InfoOf(last_uploaded_info', KeyDM).breakpoint_timestamp
            IN  \A n \in DOMAIN stored :
                    (stored[n].timestamp > t /\ stored[n].timestamp <= u) =>
                        \E m \in DOMAIN grs.result : grs.result[m] = stored[n]
      ]_vars

(***************************************************************************)
(* SpecIsolate: log_thought for two keys of an unknown scene, each call    *)
(* awaited before the next is made, and get_records_since for either key   *)
(* once no call is running.                                                *)
(***************************************************************************)
IsolateKeys == {KeyDeep, KeyUnder}

NextIsolate ==
    \/ \E key \in IsolateKeys :
            /\ NoneLogging /\ grs.pc = "idle"
            /\ Len(log_tasks) < MaxIngested
            /\ LogCall(key)
    \/ \E i \in 1..MaxCalls : LogStart(i)
    \/ \E i \in 1..MaxCalls : LogReadOpen(i)
    \/ \E i \in 1..MaxCalls : LogRead(i)
    \/ \E i \in 1..MaxCalls : LogOpen(i)
    \/ \E i \in 1..MaxCalls : LogWrite(i)
    \/ \E i \in 1..MaxCalls : LogClose(i)
    \/ \E i \in 1..MaxCalls : LogReplace(i)
    \/ \E key \in IsolateKeys : NoneLogging /\ GrsCall(key, NoTs, MaxTotal)
    \/ GrsOpen
    \/ GrsRead

InitIsolate ==
    /\ DefaultConfig
    /\ InitQuiet
    /\ last_uploaded_info = <<>>
    /\ fs = EmptyFs

SpecIsolate == InitIsolate /\ [][NextIsolate]_vars

\* the log_thought call that is under way
Logging == {i \in DOMAIN log_tasks : log_tasks[i].pc \notin {"start", "done"}}

\* C30: get_records_since(K, ...) returns records of K only, and a step of a
\* log_thought for another key changes neither the segment files of K nor the
\* records they hold.
C30_PartitionIsolation ==
    /\ [](grs.pc = "done" => \A n \in DOMAIN grs.result : grs.result[n].user_key = grs.key)
    /\ [][ \A i \in Logging : \A key \in IsolateKeys :
             key # log_tasks[i].record.user_key =>
                /\ Segments(fs', key) = Segments(fs, key)
                /\ StoredRecords(fs', key) = StoredRecords(fs, key)
         ]_vars

(***************************************************************************)
(* SpecStartup: the start of R1Filter.  The initial states draw whether    *)
(* persistence is configured, whether _init_storage could create the       *)
(* directory (lines 80-82 turn enable_persistence off when it could not,   *)
(* and line 71 creates the load task all the same) and the                 *)
(* hina_thoughts_cache.json an earlier run left: none, one that does not   *)
(* parse, one holding a record.  SpecStartupFair adds that the event loop  *)
(* runs the load task it was given.                                        *)
(***************************************************************************)
InitStartup ==
    /\ upload_cache_size = MaxCacheSize
    /\ log_rotation_count = DefaultRotationCount
    /\ PmUnused
    /\ \E configured \in BOOLEAN, created \in BOOLEAN :
       \E cache_file \in {EmptyFile, CorruptFile, OldCache} :
            /\ enable_persistence = (configured /\ created)
            /\ r1 = R1New(configured, cache_file, NoLogs, {})

NextStartup ==
    \/ R1Load
    \/ \E key \in IngestKeys : Resp(key, "x")
    \/ TaskRun
    \/ Think(KeyDM)
    \/ MemoCall(KeyDM)
    \/ MemoResume(KeyDM)
    \/ UploadDone(KeyDM)

SpecStartup == InitStartup /\ [][NextStartup]_vars

SpecStartupFair == SpecStartup /\ WF_vars(R1Load)

\* C31: _loaded is eventually set; until it is set no step changes anything
\* but what the load sets (records and _loaded), so no record is ingested, no
\* task created, no command answered and no file written; the load therefore
\* finds no record of this run, records[K] stays the last record resp built
\* for K, and every snapshot written is json.dump of the records of a loaded
\* instance.
C31_LoadGating ==
    /\ <>r1.loaded
    /\ [](\A key \in Keys :
            r1.ingested[key] # NoRecord => r1.records[key] = r1.ingested[key])
    /\ [][/\ ~r1.loaded
             => /\ r1.ingested = [k \in Keys |-> NoRecord]
                /\ r1' = [r1 EXCEPT !.loaded = r1'.loaded, !.records = r1'.records]
                /\ r1'.records \in {r1.records, r1.cache_file.val}
          /\ r1'.cache_file # r1.cache_file
             => r1.loaded /\ r1'.cache_file = Ok(r1.records)]_vars

\* C31 witness: the load took the record of an earlier run from the file, a
\* record of another key was ingested after it and the snapshot written since
\* holds both
C31_Witness ==
    /\ r1.loaded
    /\ r1.records[KeyDM] = MkRecord(KeyDM, NoTs, "old")
    /\ r1.ingested[KeyGroup] # NoRecord
    /\ r1.cache_file = Ok(r1.records)
    /\ r1.think[KeyDM] = Reply("reasoning", r1.records[KeyDM])

(***************************************************************************)
(* SpecRoundTrip: cache.json written by the saves of the periodic task and *)
(* of the debounce task of one key, and read back by a restart under the   *)
(* same configuration.  The initial states draw upload_cache_size and the  *)
(* cache.json an earlier run left, which __init__ has loaded: none, or one *)
(* holding a record.  update_last_upload_info is called while no save is   *)
(* between line 65 and line 70, so that every save serializes what is in   *)
(* memory when it ends.                                                    *)
(***************************************************************************)
RoundTripTasks == {KeyDM, Periodic}

\* no save is under way
NoneSaving == \A id \in TaskIds : ~Saving(save_tasks[id])

\* storage_dir holding the cache.json a save of recs wrote
FsWithRecords(recs) ==
    [names |-> (CachePath :> 1),
     data  |-> <<Ok(<<SnapshotOf(recs, <<>>)>>)>>,
     mtime |-> <<1>>,
     dirs  |-> {}]

InitRoundTrip ==
    /\ enable_persistence = TRUE
    /\ upload_cache_size \in 1..MaxCacheSize
    /\ log_rotation_count = DefaultRotationCount
    /\ fs \in {EmptyFs,
               FsWithRecords([k \in Keys |-> IF k = KeyDM THEN MkRecord(k, 1, "r")
                                             ELSE NoRecord])}
    /\ records = LoadCacheFromDisk(fs).records
    /\ last_uploaded_info = LoadCacheFromDisk(fs).last_uploaded_info
    /\ save_tasks = [id \in TaskIds |-> IF id = Periodic THEN Sleeping ELSE NoTask]
    /\ log_tasks = <<>>
    /\ grs = GrsIdle
    /\ alive = TRUE
    /\ hist = HistInit
    /\ timers = NoTimers
    /\ r1 = R1Unused

NextRoundTrip ==
    \/ \E key \in {KeyDM, KeyGroup} : NoneSaving /\ UpdateLastUploadInfo(key, "u", 1)
    \/ \E id \in RoundTripTasks : TimerFires(id)
    \/ \E id \in RoundTripTasks : SaveOpen(id)
    \/ \E id \in RoundTripTasks : SaveWrite(id)
    \/ \E id \in RoundTripTasks : SaveClose(id)
    \/ \E id \in RoundTripTasks : SaveReplace(id)
    \/ Restart(upload_cache_size)

SpecRoundTrip == InitRoundTrip /\ [][NextRoundTrip]_vars

\* C32: when the os.replace of a save has succeeded, _load_cache_from_disk of a
\* fresh start gives the records and the last_uploaded_info the save
\* serialized, in the same order, and update_last_upload_info after the restart
\* leaves the cache it would have left without it.
C32_SnapshotRoundTrip ==
    [][\A id \in RoundTripTasks :
        (/\ save_tasks[id].pc = "replace"
         /\ save_tasks'[id].pc # "replace"
         /\ CacheTmp \in DOMAIN fs.names
         /\ CacheTmp \notin DOMAIN fs'.names)
        => LET loaded == LoadCacheFromDisk(fs') IN
           /\ loaded.records = records
           /\ loaded.last_uploaded_info = last_uploaded_info
           /\ \A key \in {KeyDM, KeyGroup} :
                UpdateInfo(loaded.last_uploaded_info, key, "u", 1, upload_cache_size)
                    = UpdateInfo(last_uploaded_info, key, "u", 1, upload_cache_size)
      ]_vars

\* C33: once memohina_command has sent the message of line 449 for an
\* unreadable file the call ends there: its next step starts no upload, sends
\* no other reply and leaves last_uploaded_info as it was; and
\* last_uploaded_info never holds an entry whose hash is ''.
C33_HashFailureStops ==
    /\ [](\A n \in DOMAIN r1.last_uploaded_info : r1.last_uploaded_info[n].hash # NoHash)
    /\ [][\A key \in ExportKeys :
            (r1.memo[key].pc = "unreadable" /\ r1'.memo[key] # r1.memo[key])
            => /\ r1'.memo[key] = [r1.memo[key] EXCEPT !.pc = "done"]
               /\ r1'.last_uploaded_info = r1.last_uploaded_info
         ]_vars

====
